---- MODULE Spec2Model ----
(***************************************************************************)
(* Dining-philosophers simulation engine (src/src/simulation.cpp).         *)
(*                                                                         *)
(* The state is the Simulation object's fields, the lock of every Fork,    *)
(* the position of every philosopher thread and the position of the        *)
(* single controlling thread that makes the facade calls (the facade is    *)
(* exported through pybind11 without releasing the interpreter lock, so    *)
(* facade calls never overlap each other; philosopher threads run freely). *)
(* Every access of a philosopher thread to shared memory is one step.      *)
(* A critical section under state_mutex or event_mutex is one step.        *)
(***************************************************************************)
EXTENDS Integers, Sequences, FiniteSets, TLC

\* ---------------------------------------------------------------- bounds
\* wait_counts and eat_counts are ints that grow without limit; the model
\* counts them exactly up to these values and keeps them there afterwards.
MaxWait == 1
MaxEat == 1
\* The same for wait_counts when the threads run in rotation: beyond
\* STARVATION_THRESHOLD, so that the anti-starvation test takes part.
MaxWaitInTurn == 12
\* Capacity of the event queue in the concurrent specifications; it stands
\* for the 5000 of log_event, which LogSpec uses as written.
MaxEvents == 1
\* Number of log calls LogSpec makes beyond the queue capacity.
MaxOverflow == 2

\* ------------------------------------------------------ program constants
STARVATION_THRESHOLD == 10
QUEUE_CAPACITY == 5000
\* Fork::holder when nobody holds the fork; phil_id of a system event.
NOBODY == -1

VARIABLES
    num_philosophers, num_forks,     \* constructor arguments
    running, current_strategy,
    states, wait_counts, eat_counts, max_wait_counts,
    holder,                          \* forks[f]->holder
    mtx,                             \* forks[f]->mtx: owning thread or NOBODY
    threads,                         \* the WinThread objects, by philosopher
    pc,                              \* position of each philosopher thread
    event_queue, queue_limit,
    ctl,                             \* position of the controlling thread
    ret,                             \* last direct call of a function and its result
    banker_run,                      \* history: BANKER since the last start()
    turn,                            \* scheduler: NOBODY, or the thread to run next
    event_mutex,                     \* owning thread of event_mutex, or NOBODY
    events,                          \* the local vector of poll_events
    logged_events,                   \* history: every event pushed, in order
    polled_events,                   \* history: the poll results, concatenated
    state_mutex                      \* owning thread of state_mutex, or NOBODY

vars == <<num_philosophers, num_forks, running, current_strategy, states,
          wait_counts, eat_counts, max_wait_counts, holder, mtx, threads, pc,
          event_queue, queue_limit, ctl, ret, banker_run, turn, event_mutex,
          events, logged_events, polled_events, state_mutex>>

\* The event log taken step by step (EventSpec); elsewhere a call of
\* log_event or poll_events is one step and these stay as constructed.
logVars == <<event_mutex, events, logged_events, polled_events>>

\* Everything of the Simulation object that a philosopher thread can change.
agentVars == <<states, wait_counts, eat_counts, max_wait_counts, holder, mtx,
               pc, event_queue>>

Phils == 0 .. (num_philosophers - 1)
Forks == 0 .. (num_forks - 1)

\* ------------------------------------------------------ fork assignment
LeftOf(id) == (id * num_forks) \div num_philosophers
RightOf(id) == (LeftOf(id) + 1) % num_forks

\* competitors[i], in the order the constructor pushes them.
RECURSIVE CompetitorsFrom(_, _)
CompetitorsFrom(i, j) ==
    IF j >= num_philosophers THEN <<>>
    ELSE LET rest == CompetitorsFrom(i, j + 1)
             l1 == LeftOf(i)
             r1 == RightOf(i)
             l2 == LeftOf(j)
             r2 == RightOf(j)
         IN IF i = j THEN rest
            ELSE IF l1 = l2 \/ l1 = r2 \/ r1 = l2 \/ r1 = r2
                 THEN <<j>> \o rest
                 ELSE rest

competitors(i) == CompetitorsFrom(i, 0)

\* ------------------------------------------------------------ event log
Event(phil_id, type, details) == <<phil_id, type, details>>

\* Variant: the oldest event is dropped as soon as the capacity is reached.
log_event_drops_early(q, ev) ==
    LET pushed == Append(q, ev)
    IN IF Len(pushed) >= queue_limit THEN Tail(pushed) ELSE pushed

\* push_back, then pop_front when the size exceeds the capacity.
log_event(q, ev) ==
    LET pushed == Append(q, ev)
    IN IF Len(pushed) > queue_limit THEN Tail(pushed) ELSE pushed

RECURSIVE log_all(_, _)
log_all(q, evs) ==
    IF evs = <<>> THEN q ELSE log_all(log_event(q, Head(evs)), Tail(evs))

\* x++ on a counter the model follows up to max.
Bump(x, max) == IF x < max THEN x + 1 ELSE x

\* ------------------------------------------------------ banker's algorithm
\* Variant: found tells whether the unfinished philosopher visited last
\* has finished.
safe_visit_found_last(i, phil_id, fork_id, need, s) ==
    IF s.finish[i] THEN s
    ELSE IF need[i] <= 0
         THEN [s EXCEPT !.finish[i] = TRUE,
                        !.finished_count = @ + 1,
                        !.found = TRUE]
         ELSE LET left == LeftOf(i)
                  right == RightOf(i)
                  left_ok == \/ holder[left] = i
                             \/ s.available[left] = 1
                             \/ (i = phil_id /\ left = fork_id)
                  right_ok == \/ holder[right] = i
                              \/ s.available[right] = 1
                              \/ (i = phil_id /\ right = fork_id)
                  freed == {f \in {left, right} :
                               holder[f] = i \/ (i = phil_id /\ f = fork_id)}
              IN IF left_ok /\ right_ok
                 THEN [finish |-> [s.finish EXCEPT ![i] = TRUE],
                       finished_count |-> s.finished_count + 1,
                       found |-> TRUE,
                       available |-> [f \in Forks |->
                                        IF f \in freed THEN 1
                                        ELSE s.available[f]]]
                 ELSE [s EXCEPT !.found = FALSE]

\* Variant: a philosopher that finishes on need <= 0 gives its forks back.
safe_visit_frees(i, phil_id, fork_id, need, s) ==
    IF s.finish[i] THEN s
    ELSE LET left == LeftOf(i)
             right == RightOf(i)
             left_ok == \/ holder[left] = i
                        \/ s.available[left] = 1
                        \/ (i = phil_id /\ left = fork_id)
             right_ok == \/ holder[right] = i
                         \/ s.available[right] = 1
                         \/ (i = phil_id /\ right = fork_id)
             freed == {f \in Forks :
                          holder[f] = i \/ (i = phil_id /\ f = fork_id)}
         IN IF need[i] <= 0 \/ (left_ok /\ right_ok)
            THEN [finish |-> [s.finish EXCEPT ![i] = TRUE],
                  finished_count |-> s.finished_count + 1,
                  found |-> TRUE,
                  available |-> [f \in Forks |->
                                   IF f \in freed THEN 1
                                   ELSE s.available[f]]]
            ELSE s

\* Body of the for loop of the completion simulation for philosopher i.
safe_visit(i, phil_id, fork_id, need, s) ==
    IF s.finish[i] THEN s
    ELSE IF need[i] <= 0
         THEN [s EXCEPT !.finish[i] = TRUE,
                        !.finished_count = @ + 1,
                        !.found = TRUE]
         ELSE LET left == LeftOf(i)
                  right == RightOf(i)
                  left_ok == \/ holder[left] = i
                             \/ s.available[left] = 1
                             \/ (i = phil_id /\ left = fork_id)
                  right_ok == \/ holder[right] = i
                              \/ s.available[right] = 1
                              \/ (i = phil_id /\ right = fork_id)
                  freed == {f \in {left, right} :
                               holder[f] = i \/ (i = phil_id /\ f = fork_id)}
              IN IF left_ok /\ right_ok
                 THEN [finish |-> [s.finish EXCEPT ![i] = TRUE],
                       finished_count |-> s.finished_count + 1,
                       found |-> TRUE,
                       available |-> [f \in Forks |->
                                        IF f \in freed THEN 1
                                        ELSE s.available[f]]]
                 ELSE s

\* One for loop over the philosophers, from i on. (The state after the
\* visit of i is bound by a quantifier so that it is computed once.)
RECURSIVE safe_pass(_, _, _, _, _)
safe_pass(i, phil_id, fork_id, need, s) ==
    IF i >= num_philosophers THEN s
    ELSE CHOOSE r \in {safe_pass(i + 1, phil_id, fork_id, need, v) :
                          v \in {safe_visit(i, phil_id, fork_id, need, s)}} :
             TRUE

\* The while loop: passes until everybody has finished or a pass finds nobody.
RECURSIVE safe_loop(_, _, _, _)
safe_loop(phil_id, fork_id, need, s) ==
    IF s.finished_count >= num_philosophers THEN TRUE
    ELSE \E t \in {safe_pass(0, phil_id, fork_id, need,
                             [s EXCEPT !.found = FALSE])} :
             IF ~t.found THEN FALSE
             ELSE safe_loop(phil_id, fork_id, need, t)

is_safe_state(phil_id, fork_id) ==
    LET available == [f \in Forks |-> IF holder[f] # NOBODY THEN 0 ELSE 1]
        need == [p \in Phils |->
                    2 - Cardinality({f \in Forks : holder[f] = p})]
    IN IF available[fork_id] = 0 THEN FALSE
       ELSE safe_loop(phil_id, fork_id,
                      [need EXCEPT ![phil_id] = @ - 1],
                      [finish |-> [p \in Phils |-> FALSE],
                       finished_count |-> 0,
                       found |-> FALSE,
                       available |-> [available EXCEPT ![fork_id] = 0]])

\* The completion simulation with the scan order of the for loop of line
\* 154 as a parameter: order[1], order[2], ... in place of 0, 1, ...
RECURSIVE safe_pass_in(_, _, _, _, _, _)
safe_pass_in(order, k, phil_id, fork_id, need, s) ==
    IF k > Len(order) THEN s
    ELSE CHOOSE r \in {safe_pass_in(order, k + 1, phil_id, fork_id, need, v) :
                          v \in {safe_visit(order[k], phil_id, fork_id, need, s)}} :
             TRUE

RECURSIVE safe_loop_in(_, _, _, _, _)
safe_loop_in(order, phil_id, fork_id, need, s) ==
    IF s.finished_count >= num_philosophers THEN TRUE
    ELSE \E t \in {safe_pass_in(order, 1, phil_id, fork_id, need,
                                [s EXCEPT !.found = FALSE])} :
             IF ~t.found THEN FALSE
             ELSE safe_loop_in(order, phil_id, fork_id, need, t)

is_safe_state_in(order, phil_id, fork_id) ==
    LET available == [f \in Forks |-> IF holder[f] # NOBODY THEN 0 ELSE 1]
        need == [p \in Phils |->
                    2 - Cardinality({f \in Forks : holder[f] = p})]
    IN IF available[fork_id] = 0 THEN FALSE
       ELSE safe_loop_in(order, phil_id, fork_id,
                         [need EXCEPT ![phil_id] = @ - 1],
                         [finish |-> [p \in Phils |-> FALSE],
                          finished_count |-> 0,
                          found |-> FALSE,
                          available |-> [available EXCEPT ![fork_id] = 0]])

\* ------------------------------------------------------ admission control
\* Variant: a competitor at exactly the threshold already has priority.
yields_to_at_threshold(phil_id, comp_id) ==
    /\ states[comp_id] = "HUNGRY"
    /\ wait_counts[comp_id] >= STARVATION_THRESHOLD
    /\ wait_counts[comp_id] > wait_counts[phil_id]

\* The anti-starvation loop over competitors[phil_id].
yields_to(phil_id, comp_id) ==
    /\ states[comp_id] = "HUNGRY"
    /\ wait_counts[comp_id] > STARVATION_THRESHOLD
    /\ wait_counts[comp_id] > wait_counts[phil_id]

request_permission(phil_id, fork_id) ==
    IF holder[fork_id] # NOBODY THEN FALSE
    ELSE IF \E k \in 1 .. Len(competitors(phil_id)) :
                yields_to(phil_id, competitors(phil_id)[k])
         THEN FALSE
         ELSE IF current_strategy = "BANKER"
              THEN is_safe_state(phil_id, fork_id)
              ELSE TRUE

\* ------------------------------------------------------ deadlock detector
\* Variant: only the wait for a left fork is recorded.
waiting_for_keys_left_only ==
    {i \in Phils :
        /\ states[i] = "HUNGRY"
        /\ holder[LeftOf(i)] # i /\ holder[LeftOf(i)] # NOBODY}

\* The std::map waiting_for, as a function on its key set.
waiting_for_keys ==
    {i \in Phils :
        /\ states[i] = "HUNGRY"
        /\ \/ (holder[LeftOf(i)] # i /\ holder[LeftOf(i)] # NOBODY)
           \/ (holder[LeftOf(i)] = i /\ holder[RightOf(i)] # NOBODY
                                     /\ holder[RightOf(i)] # i)}

waiting_for ==
    [i \in waiting_for_keys |->
        IF holder[LeftOf(i)] # i /\ holder[LeftOf(i)] # NOBODY
        THEN holder[LeftOf(i)]
        ELSE holder[RightOf(i)]]

\* Variant: an if in place of the while, the walk ends after one hop.
chain_walk_single_hop(curr, visited, steps) ==
    IF curr \notin DOMAIN waiting_for
    THEN [found |-> FALSE, node |-> curr, steps |-> steps]
    ELSE [found |-> waiting_for[curr] = curr, node |-> waiting_for[curr],
          steps |-> steps + 1]

\* The while loop of one start node: <<cycle found, node, steps taken>>.
RECURSIVE chain_walk(_, _, _)
chain_walk(curr, visited, steps) ==
    IF curr \notin DOMAIN waiting_for
    THEN [found |-> FALSE, node |-> curr, steps |-> steps]
    ELSE LET next == waiting_for[curr]
         IN IF \E k \in 1 .. Len(visited) + 1 : Append(visited, curr)[k] = next
            THEN [found |-> TRUE, node |-> next, steps |-> steps + 1]
            ELSE chain_walk(next, Append(visited, curr), steps + 1)

\* The for loop over the map's keys, in key order.
RECURSIVE detect_from(_)
detect_from(start_node) ==
    IF start_node >= num_philosophers
    THEN [found |-> FALSE, node |-> NOBODY, steps |-> 0]
    ELSE IF start_node \notin DOMAIN waiting_for
         THEN detect_from(start_node + 1)
         ELSE LET w == chain_walk(start_node, <<>>, 0)
              IN IF w.found THEN w ELSE detect_from(start_node + 1)

detect_deadlock == detect_from(0)

\* ------------------------------------------------------ resource graph
\* Variant: a hungry philosopher's left fork is always reported as held.
graph_edges_left_held(i) ==
    IF states[i] = "EATING"
    THEN << <<i, LeftOf(i), 1>>, <<i, RightOf(i), 1>> >>
    ELSE IF states[i] = "HUNGRY"
         THEN << <<i, LeftOf(i), 1>>, <<i, RightOf(i), 0>> >>
         ELSE <<>>

\* The edges pushed for philosopher i, lines 356-371.
graph_edges(i) ==
    LET left == LeftOf(i)
        right == RightOf(i)
    IN IF states[i] = "EATING"
       THEN << <<i, left, 1>>, <<i, right, 1>> >>
       ELSE IF states[i] = "HUNGRY"
            THEN IF holder[left] = i
                 THEN << <<i, left, 1>>, <<i, right, 0>> >>
                 ELSE << <<i, left, 0>> >>
            ELSE <<>>

RECURSIVE graph_from(_)
graph_from(i) ==
    IF i >= num_philosophers THEN <<>>
    ELSE graph_edges(i) \o graph_from(i + 1)

get_resource_graph == graph_from(0)

get_states ==
    [i \in Phils |-> CASE states[i] = "THINKING" -> 0
                       [] states[i] = "HUNGRY" -> 1
                       [] states[i] = "EATING" -> 2]

\* ------------------------------------------------------------ construction
\* Simulation::Simulation(n_phil, n_forks), with the given queue capacity.
Constructed(n_phil, n_forks, limit, queue) ==
    /\ num_philosophers = n_phil
    /\ num_forks = n_forks
    /\ running = FALSE
    /\ current_strategy = "NONE"
    /\ states = [i \in 0 .. (n_phil - 1) |-> "THINKING"]
    /\ wait_counts = [i \in 0 .. (n_phil - 1) |-> 0]
    /\ eat_counts = [i \in 0 .. (n_phil - 1) |-> 0]
    /\ max_wait_counts = [i \in 0 .. (n_phil - 1) |-> 0]
    /\ holder = [f \in 0 .. (n_forks - 1) |-> NOBODY]
    /\ mtx = [f \in 0 .. (n_forks - 1) |-> NOBODY]
    /\ threads = <<>>
    /\ pc = [i \in 0 .. (n_phil - 1) |-> "none"]
    /\ event_queue = queue
    /\ queue_limit = limit
    /\ ctl = "idle"
    /\ ret = [op |-> "none", arg |-> <<>>, val |-> FALSE]
    /\ banker_run = FALSE
    /\ event_mutex = NOBODY
    /\ events = <<>>
    /\ logged_events = <<>>
    /\ polled_events = <<>>
    /\ state_mutex = NOBODY

\* The simulation as the constructor leaves it: no event logged yet.
Construct(n_phil, n_forks, limit) == Constructed(n_phil, n_forks, limit, <<>>)

\* <<num_philosophers, num_forks>> of the simulations that are run.
Configs == {<<1, 2>>, <<2, 1>>, <<2, 2>>}

Init ==
    /\ \E cfg \in Configs : Construct(cfg[1], cfg[2], MaxEvents)
    /\ turn = NOBODY

\* ------------------------------------------------------ philosopher thread
\* Thread id is given the processor and moves to label; a critical section
\* under state_mutex is over when the step is. With turn = NOBODY
\* the scheduler may run any thread at any step (preemptive scheduling);
\* otherwise it runs the threads in rotation, one step each.
\* Variant: a guard that keeps the mutex when it goes out of scope.
guard_exit_keeps(id) == state_mutex

\* ~WinLockGuard on state_mutex: thread id gives it back if it owns it.
guard_exit(id) == IF state_mutex = id THEN NOBODY ELSE state_mutex

Goto(id, label) ==
    /\ turn \in {NOBODY, id}
    /\ pc' = [pc EXCEPT ![id] = label]
    /\ turn' = IF turn = NOBODY THEN NOBODY ELSE (id + 1) % num_philosophers
    /\ state_mutex' = guard_exit(id)

\* Variant: a lock that never refuses.
try_lock_always(f) == TRUE

\* WinMutex::try_lock on forks[f]->mtx: TRUE when the lock is taken.
try_lock(f) == mtx[f] = NOBODY

\* while (running), line 227
LoopHead(id) ==
    /\ pc[id] = "loop"
    /\ IF running THEN Goto(id, "think") ELSE Goto(id, "done")
    /\ UNCHANGED <<num_philosophers, num_forks, running, current_strategy,
                   states, wait_counts, eat_counts, max_wait_counts, holder,
                   mtx, threads, event_queue, queue_limit, ctl, ret,
                   banker_run, logVars>>

Think(id) ==
    /\ pc[id] = "think"
    /\ states' = [states EXCEPT ![id] = "THINKING"]
    /\ Goto(id, "log_think")
    /\ UNCHANGED <<num_philosophers, num_forks, running, current_strategy,
                   wait_counts, eat_counts, max_wait_counts, holder, mtx,
                   threads, event_queue, queue_limit, ctl, ret, banker_run, logVars>>

\* The log_event calls of the thread: position, event, next position.
LogSite(id) ==
    { [at |-> "log_think", ev |-> Event(id, "STATE", "THINKING"),
       to |-> "hungry"],
      [at |-> "log_hungry", ev |-> Event(id, "STATE", "HUNGRY"),
       to |-> "retry"],
      [at |-> "log_acq_left", ev |-> Event(id, "ACQUIRE", <<"Left Fork", LeftOf(id)>>),
       to |-> "req_right"],
      [at |-> "log_acq_right", ev |-> Event(id, "ACQUIRE", <<"Right Fork", RightOf(id)>>),
       to |-> "eat"],
      [at |-> "log_eat", ev |-> Event(id, "STATE", "EATING"),
       to |-> "clr_right"],
      [at |-> "log_rel_right", ev |-> Event(id, "RELEASE", <<"Right Fork", RightOf(id)>>),
       to |-> "clr_left"],
      [at |-> "log_rel_left", ev |-> Event(id, "RELEASE", <<"Left Fork", LeftOf(id)>>),
       to |-> "loop"],
      [at |-> "b_log_rel", ev |-> Event(id, "RELEASE", <<"Left Fork", LeftOf(id), "(Backoff)">>),
       to |-> "inc_wait"],
      [at |-> "d_log_rel", ev |-> Event(id, "RELEASE", <<"Left Fork", LeftOf(id), "(Permission Denied)">>),
       to |-> "inc_wait"] }

Log(id) ==
    /\ \E site \in LogSite(id) :
          /\ pc[id] = site.at
          /\ event_queue' = log_event(event_queue, site.ev)
          /\ Goto(id, site.to)
    /\ UNCHANGED <<num_philosophers, num_forks, running, current_strategy,
                   states, wait_counts, eat_counts, max_wait_counts, holder,
                   mtx, threads, queue_limit, ctl, ret, banker_run, logVars>>

Hungry(id) ==
    /\ pc[id] = "hungry"
    /\ states' = [states EXCEPT ![id] = "HUNGRY"]
    /\ wait_counts' = [wait_counts EXCEPT ![id] = 0]
    /\ Goto(id, "log_hungry")
    /\ UNCHANGED <<num_philosophers, num_forks, running, current_strategy,
                   eat_counts, max_wait_counts, holder, mtx, threads,
                   event_queue, queue_limit, ctl, ret, banker_run, logVars>>

\* Variant: while (!has_eaten).
Retry_ignores_flag(id) ==
    /\ pc[id] = "retry"
    /\ Goto(id, "req_left")
    /\ UNCHANGED <<num_philosophers, num_forks, running, current_strategy,
                   states, wait_counts, eat_counts, max_wait_counts, holder,
                   mtx, threads, event_queue, queue_limit, ctl, ret,
                   banker_run, logVars>>

\* while (running && !has_eaten), line 245, entered with has_eaten false
Retry(id) ==
    /\ pc[id] = "retry"
    /\ IF running THEN Goto(id, "req_left") ELSE Goto(id, "loop")
    /\ UNCHANGED <<num_philosophers, num_forks, running, current_strategy,
                   states, wait_counts, eat_counts, max_wait_counts, holder,
                   mtx, threads, event_queue, queue_limit, ctl, ret,
                   banker_run, logVars>>

ReqLeft(id) ==
    /\ pc[id] = "req_left"
    /\ IF request_permission(id, LeftOf(id))
       THEN Goto(id, "try_left")
       ELSE Goto(id, "inc_wait")
    /\ UNCHANGED <<num_philosophers, num_forks, running, current_strategy,
                   states, wait_counts, eat_counts, max_wait_counts, holder,
                   mtx, threads, event_queue, queue_limit, ctl, ret,
                   banker_run, logVars>>

\* Variant: a lost try_lock goes back to the head of the retry loop.
TryLeft_retry_uncounted(id) ==
    /\ pc[id] = "try_left"
    /\ IF try_lock(LeftOf(id))
       THEN mtx' = [mtx EXCEPT ![LeftOf(id)] = id] /\ Goto(id, "set_left")
       ELSE mtx' = mtx /\ Goto(id, "retry")
    /\ UNCHANGED <<num_philosophers, num_forks, running, current_strategy,
                   states, wait_counts, eat_counts, max_wait_counts, holder,
                   threads, event_queue, queue_limit, ctl, ret, banker_run,
                   logVars>>

TryLeft(id) ==
    /\ pc[id] = "try_left"
    /\ IF try_lock(LeftOf(id))
       THEN mtx' = [mtx EXCEPT ![LeftOf(id)] = id] /\ Goto(id, "set_left")
       ELSE mtx' = mtx /\ Goto(id, "inc_wait")
    /\ UNCHANGED <<num_philosophers, num_forks, running, current_strategy,
                   states, wait_counts, eat_counts, max_wait_counts, holder,
                   threads, event_queue, queue_limit, ctl, ret, banker_run, logVars>>

SetLeft(id) ==
    /\ pc[id] = "set_left"
    /\ holder' = [holder EXCEPT ![LeftOf(id)] = id]
    /\ Goto(id, "log_acq_left")
    /\ UNCHANGED <<num_philosophers, num_forks, running, current_strategy,
                   states, wait_counts, eat_counts, max_wait_counts, mtx,
                   threads, event_queue, queue_limit, ctl, ret, banker_run, logVars>>

\* Variant: a thread that sees the flag cleared leaves with its left fork.
ReqRight_leaves_on_stop(id) ==
    /\ pc[id] = "req_right"
    /\ IF ~running
       THEN Goto(id, "loop")
       ELSE IF request_permission(id, RightOf(id))
            THEN Goto(id, "try_right")
            ELSE Goto(id, "d_clr_left")
    /\ UNCHANGED <<num_philosophers, num_forks, running, current_strategy,
                   states, wait_counts, eat_counts, max_wait_counts, holder,
                   mtx, threads, event_queue, queue_limit, ctl, ret,
                   banker_run, logVars>>

ReqRight(id) ==
    /\ pc[id] = "req_right"
    /\ IF request_permission(id, RightOf(id))
       THEN Goto(id, "try_right")
       ELSE Goto(id, "d_clr_left")
    /\ UNCHANGED <<num_philosophers, num_forks, running, current_strategy,
                   states, wait_counts, eat_counts, max_wait_counts, holder,
                   mtx, threads, event_queue, queue_limit, ctl, ret,
                   banker_run, logVars>>

\* Variant: after a failed try_lock the left fork is kept.
TryRight_keeps_left(id) ==
    /\ pc[id] = "try_right"
    /\ IF try_lock(RightOf(id))
       THEN mtx' = [mtx EXCEPT ![RightOf(id)] = id] /\ Goto(id, "set_right")
       ELSE mtx' = mtx /\ Goto(id, "inc_wait")
    /\ UNCHANGED <<num_philosophers, num_forks, running, current_strategy,
                   states, wait_counts, eat_counts, max_wait_counts, holder,
                   threads, event_queue, queue_limit, ctl, ret, banker_run,
                   logVars>>

TryRight(id) ==
    /\ pc[id] = "try_right"
    /\ IF try_lock(RightOf(id))
       THEN mtx' = [mtx EXCEPT ![RightOf(id)] = id] /\ Goto(id, "set_right")
       ELSE mtx' = mtx /\ Goto(id, "b_clr_left")
    /\ UNCHANGED <<num_philosophers, num_forks, running, current_strategy,
                   states, wait_counts, eat_counts, max_wait_counts, holder,
                   threads, event_queue, queue_limit, ctl, ret, banker_run, logVars>>

SetRight(id) ==
    /\ pc[id] = "set_right"
    /\ holder' = [holder EXCEPT ![RightOf(id)] = id]
    /\ Goto(id, "log_acq_right")
    /\ UNCHANGED <<num_philosophers, num_forks, running, current_strategy,
                   states, wait_counts, eat_counts, max_wait_counts, mtx,
                   threads, event_queue, queue_limit, ctl, ret, banker_run, logVars>>

\* Variant: the meal is not counted.
Eat_uncounted(id) ==
    /\ pc[id] = "eat"
    /\ states' = [states EXCEPT ![id] = "EATING"]
    /\ max_wait_counts' =
          [max_wait_counts EXCEPT
              ![id] = IF wait_counts[id] > @ THEN wait_counts[id] ELSE @]
    /\ wait_counts' = [wait_counts EXCEPT ![id] = 0]
    /\ Goto(id, "log_eat")
    /\ UNCHANGED <<num_philosophers, num_forks, running, current_strategy,
                   eat_counts, holder, mtx, threads, event_queue, queue_limit,
                   ctl, ret, banker_run, logVars>>

\* lines 265-274
Eat(id) ==
    /\ pc[id] = "eat"
    /\ states' = [states EXCEPT ![id] = "EATING"]
    /\ eat_counts' = [eat_counts EXCEPT ![id] = Bump(@, MaxEat)]
    /\ max_wait_counts' =
          [max_wait_counts EXCEPT
              ![id] = IF wait_counts[id] > @ THEN wait_counts[id] ELSE @]
    /\ wait_counts' = [wait_counts EXCEPT ![id] = 0]
    /\ Goto(id, "log_eat")
    /\ UNCHANGED <<num_philosophers, num_forks, running, current_strategy,
                   holder, mtx, threads, event_queue, queue_limit, ctl, ret,
                   banker_run, logVars>>

\* Variant: after the meal the right fork is put down twice.
ReleaseSite_right_twice(id) ==
    { [clr |-> "clr_right", unlock |-> "unlock_right", fork |-> RightOf(id),
       to |-> "log_rel_right"],
      [clr |-> "clr_left", unlock |-> "unlock_left", fork |-> RightOf(id),
       to |-> "log_rel_left"],
      [clr |-> "b_clr_left", unlock |-> "b_unlock_left", fork |-> LeftOf(id),
       to |-> "b_log_rel"],
      [clr |-> "d_clr_left", unlock |-> "d_unlock_left", fork |-> LeftOf(id),
       to |-> "d_log_rel"] }

\* Variant: after the meal the left fork is put down first.
ReleaseSite_left_first(id) ==
    { [clr |-> "clr_right", unlock |-> "unlock_right", fork |-> LeftOf(id),
       to |-> "log_rel_right"],
      [clr |-> "clr_left", unlock |-> "unlock_left", fork |-> RightOf(id),
       to |-> "log_rel_left"],
      [clr |-> "b_clr_left", unlock |-> "b_unlock_left", fork |-> LeftOf(id),
       to |-> "b_log_rel"],
      [clr |-> "d_clr_left", unlock |-> "d_unlock_left", fork |-> LeftOf(id),
       to |-> "d_log_rel"] }

\* The three places that put a fork down: holder = -1, then unlock.
ReleaseSite(id) ==
    { [clr |-> "clr_right", unlock |-> "unlock_right", fork |-> RightOf(id),
       to |-> "log_rel_right"],
      [clr |-> "clr_left", unlock |-> "unlock_left", fork |-> LeftOf(id),
       to |-> "log_rel_left"],
      [clr |-> "b_clr_left", unlock |-> "b_unlock_left", fork |-> LeftOf(id),
       to |-> "b_log_rel"],
      [clr |-> "d_clr_left", unlock |-> "d_unlock_left", fork |-> LeftOf(id),
       to |-> "d_log_rel"] }

ClearHolder(id) ==
    /\ \E site \in ReleaseSite(id) :
          /\ pc[id] = site.clr
          /\ holder' = [holder EXCEPT ![site.fork] = NOBODY]
          /\ Goto(id, site.unlock)
    /\ UNCHANGED <<num_philosophers, num_forks, running, current_strategy,
                   states, wait_counts, eat_counts, max_wait_counts, mtx,
                   threads, event_queue, queue_limit, ctl, ret, banker_run, logVars>>

Unlock(id) ==
    /\ \E site \in ReleaseSite(id) :
          /\ pc[id] = site.unlock
          /\ mtx' = [mtx EXCEPT ![site.fork] = NOBODY]
          /\ Goto(id, site.to)
    /\ UNCHANGED <<num_philosophers, num_forks, running, current_strategy,
                   states, wait_counts, eat_counts, max_wait_counts, holder,
                   threads, event_queue, queue_limit, ctl, ret, banker_run, logVars>>

\* How far wait_counts is followed: see MaxWait and MaxWaitInTurn.
wait_cap == IF turn = NOBODY THEN MaxWait ELSE MaxWaitInTurn

\* lines 305-313
IncWait(id) ==
    /\ pc[id] = "inc_wait"
    /\ wait_counts' = [wait_counts EXCEPT ![id] = Bump(@, wait_cap)]
    /\ Goto(id, "retry")
    /\ UNCHANGED <<num_philosophers, num_forks, running, current_strategy,
                   states, eat_counts, max_wait_counts, holder, mtx, threads,
                   event_queue, queue_limit, ctl, ret, banker_run, logVars>>

philosopher_thread(id) ==
    \/ LoopHead(id) \/ Think(id) \/ Log(id) \/ Hungry(id) \/ Retry(id)
    \/ ReqLeft(id) \/ TryLeft(id) \/ SetLeft(id)
    \/ ReqRight(id) \/ TryRight(id) \/ SetRight(id) \/ Eat(id)
    \/ ClearHolder(id) \/ Unlock(id) \/ IncWait(id)

\* ------------------------------------------------------------------ facade
\* Variant: start() without the check of the flag.
start_never_returns_early == FALSE

\* if (running) return;  line 64
start_returns_early == running

\* threads.push_back for i = 0 .. num_philosophers - 1
spawned == [k \in 1 .. num_philosophers |-> k - 1]

\* start(), lines 62-71: the flag and the spawning of the threads.
Start ==
    /\ ctl = "idle"
    /\ IF start_returns_early
       THEN UNCHANGED <<running, threads, pc, ctl, banker_run>>
       ELSE /\ running' = TRUE
            /\ threads' = threads \o spawned
            /\ pc' = [i \in Phils |-> "loop"]
            /\ ctl' = "starting"
            /\ banker_run' = (current_strategy = "BANKER")
    /\ UNCHANGED <<turn, num_philosophers, num_forks, current_strategy, states,
                   wait_counts, eat_counts, max_wait_counts, holder, mtx,
                   event_queue, queue_limit, ret, logVars, state_mutex>>

\* start(), line 72
StartLog ==
    /\ ctl = "starting"
    /\ event_queue' =
          log_event(event_queue, Event(NOBODY, "SYSTEM", "Simulation started"))
    /\ ctl' = "idle"
    /\ UNCHANGED <<turn, num_philosophers, num_forks, running, current_strategy,
                   states, wait_counts, eat_counts, max_wait_counts, holder,
                   mtx, threads, pc, queue_limit, ret, banker_run, logVars, state_mutex>>

\* stop(), line 77
StopCall ==
    /\ ctl = "idle"
    /\ running' = FALSE
    /\ ctl' = "stopping"
    /\ UNCHANGED <<turn, num_philosophers, num_forks, current_strategy, states,
                   wait_counts, eat_counts, max_wait_counts, holder, mtx,
                   threads, pc, event_queue, queue_limit, ret, banker_run, logVars, state_mutex>>

\* Variant: a join that does not wait.
join_returns_at_once(i) == TRUE

\* WinThread::join on the thread of philosopher i returns once it has exited.
join_returns(i) == pc[i] = "done"

\* Variant: the pending wait is added to the high-water mark.
stop_max_wait_accumulates(i) ==
    IF states[i] = "HUNGRY"
    THEN max_wait_counts[i] + wait_counts[i]
    ELSE max_wait_counts[i]

\* Variant: stop() reports the mark as it is, without the fold.
stop_max_wait_unfolded(i) == max_wait_counts[i]

\* stop(), lines 85-87
stop_max_wait(i) ==
    IF states[i] = "HUNGRY" /\ wait_counts[i] > max_wait_counts[i]
    THEN wait_counts[i]
    ELSE max_wait_counts[i]

\* Variant: "Simulation stopped" is logged before the statistics.
stop_events_stopped_first ==
    [k \in 1 .. (num_philosophers + 1) |->
        IF k = 1
        THEN Event(NOBODY, "SYSTEM", "Simulation stopped")
        ELSE Event(k - 2, "STATS", <<eat_counts[k - 2], stop_max_wait(k - 2)>>)]

\* stop(), lines 84-94: the events it logs, in order.
stop_events ==
    [k \in 1 .. (num_philosophers + 1) |->
        IF k <= num_philosophers
        THEN Event(k - 1, "STATS", <<eat_counts[k - 1], stop_max_wait(k - 1)>>)
        ELSE Event(NOBODY, "SYSTEM", "Simulation stopped")]

\* stop(), lines 78-94: every join has returned; the rest runs alone.
StopReturn ==
    /\ ctl = "stopping"
    /\ \A k \in 1 .. Len(threads) : join_returns(threads[k])
    /\ threads' = <<>>
    /\ pc' = [i \in Phils |-> IF pc[i] = "done" THEN "none" ELSE pc[i]]
    /\ max_wait_counts' = [i \in Phils |-> stop_max_wait(i)]
    /\ event_queue' = log_all(event_queue, stop_events)
    /\ ctl' = "idle"
    /\ UNCHANGED <<turn, num_philosophers, num_forks, running, current_strategy,
                   states, wait_counts, eat_counts, holder, mtx, queue_limit,
                   ret, banker_run, logVars, state_mutex>>

\* Arguments set_strategy is called with.
StrategyCodes == {-1, 0, 1, 2}

\* Variant: every nonzero code selects BANKER.
strategy_of_nonzero(strategy_code) ==
    IF strategy_code # 0 THEN "BANKER" ELSE "NONE"

\* set_strategy, lines 100-101
strategy_of(strategy_code) ==
    IF strategy_code = 1 THEN "BANKER" ELSE "NONE"

\* set_strategy(strategy_code), lines 97-103
SetStrategy(strategy_code) ==
    /\ ctl = "idle"
    /\ current_strategy' = strategy_of(strategy_code)
    /\ event_queue' =
          log_event(event_queue,
                    Event(NOBODY, "SYSTEM",
                          "Strategy changed to " \o ToString(strategy_code)))
    /\ banker_run' = (banker_run /\ strategy_code = 1)
    /\ UNCHANGED <<turn, num_philosophers, num_forks, running, states, wait_counts,
                   eat_counts, max_wait_counts, holder, mtx, threads, pc,
                   queue_limit, ctl, ret, logVars, state_mutex>>

\* detect_deadlock(), lines 318-349
DetectDeadlock ==
    /\ ctl = "idle"
    /\ event_queue' =
          IF detect_deadlock.found
          THEN log_event(event_queue,
                         Event(NOBODY, "DEADLOCK", detect_deadlock.node))
          ELSE event_queue
    /\ UNCHANGED <<turn, num_philosophers, num_forks, running, current_strategy,
                   states, wait_counts, eat_counts, max_wait_counts, holder,
                   mtx, threads, pc, queue_limit, ctl, ret, banker_run, logVars, state_mutex>>

\* poll_events(), lines 115-121: the vector it returns, and the clearing.
poll_events == event_queue

PollEvents ==
    /\ ctl = "idle"
    /\ event_queue' = <<>>
    /\ UNCHANGED <<turn, num_philosophers, num_forks, running, current_strategy,
                   states, wait_counts, eat_counts, max_wait_counts, holder,
                   mtx, threads, pc, queue_limit, ctl, ret, banker_run, logVars, state_mutex>>

Agent ==
    \/ (\E id \in Phils : LoopHead(id))
    \/ (\E id \in Phils : Think(id))
    \/ (\E id \in Phils : Log(id))
    \/ (\E id \in Phils : Hungry(id))
    \/ (\E id \in Phils : Retry(id))
    \/ (\E id \in Phils : ReqLeft(id))
    \/ (\E id \in Phils : TryLeft(id))
    \/ (\E id \in Phils : SetLeft(id))
    \/ (\E id \in Phils : ReqRight(id))
    \/ (\E id \in Phils : TryRight(id))
    \/ (\E id \in Phils : SetRight(id))
    \/ (\E id \in Phils : Eat(id))
    \/ (\E id \in Phils : ClearHolder(id))
    \/ (\E id \in Phils : Unlock(id))
    \/ (\E id \in Phils : IncWait(id))

Facade ==
    \/ Start \/ StartLog \/ StopCall \/ StopReturn
    \/ (\E code \in StrategyCodes : SetStrategy(code))
    \/ DetectDeadlock
    \/ PollEvents

Next == Agent \/ Facade

Spec == Init /\ [][Next]_vars

\* ------------------------------------------------------------ locking
\* The blocking mutexes a thread step takes, outermost first: the
\* WinLockGuard on state_mutex at lines 230, 238, 193 (request_permission),
\* 266 and 308, and the one on event_mutex in log_event, line 107. A step
\* gives them back before it ends.
step_mutexes(label) ==
    IF label \in {"think", "hungry", "req_left", "req_right", "eat",
                  "inc_wait"}
    THEN <<"state_mutex">>
    ELSE IF label \in {"log_think", "log_hungry", "log_acq_left",
                       "log_acq_right", "log_eat", "log_rel_right",
                       "log_rel_left", "b_log_rel", "d_log_rel"}
         THEN <<"event_mutex">>
         ELSE <<>>

\* Variant: set_strategy logs first and takes state_mutex inside.
set_strategy_mutexes_reversed == <<"event_mutex", "state_mutex">>

\* The blocking mutexes set_strategy holds at line 102: state_mutex, and
\* event_mutex inside log_event.
set_strategy_mutexes == <<"state_mutex", "event_mutex">>

\* The blocking mutexes detect_deadlock holds at its deepest point:
\* state_mutex, and event_mutex inside the log_event of line 344.
detect_deadlock_mutexes ==
    IF detect_deadlock.found THEN <<"state_mutex", "event_mutex">>
    ELSE <<"state_mutex">>

\* The fork locks thread id owns.
fork_locks(id) == {f \in Forks : mtx[f] = id}

\* ------------------------------------------------- direct function calls
\* States, as snapshots: every combination of the values below.
StateNames == {"THINKING", "HUNGRY", "EATING"}

\* Philosophers that have fork f as their left or right fork.
UsersOf(f, n_phil, n_forks) ==
    {i \in 0 .. (n_phil - 1) :
        LET l == (i * n_forks) \div n_phil
        IN f = l \/ f = (l + 1) % n_forks}

Returned(op, arg, val) == ret' = [op |-> op, arg |-> arg, val |-> val]

\* wait_counts around the starvation threshold.
WaitSamples ==
    {0, STARVATION_THRESHOLD, STARVATION_THRESHOLD + 1,
     STARVATION_THRESHOLD + 2}

PermConfigs == {<<3, 4>>}

\* A stopped simulation whose shared state is any snapshot in which every
\* fork is free or held by one of its users.
InitPerm ==
    \E cfg \in PermConfigs :
        /\ num_philosophers = cfg[1]
        /\ num_forks = cfg[2]
        /\ running = FALSE
        /\ current_strategy \in {"NONE", "BANKER"}
        /\ states \in [0 .. (cfg[1] - 1) -> StateNames]
        /\ wait_counts \in [0 .. (cfg[1] - 1) -> WaitSamples]
        /\ eat_counts = [i \in 0 .. (cfg[1] - 1) |-> 0]
        /\ max_wait_counts = [i \in 0 .. (cfg[1] - 1) |-> 0]
        /\ holder \in [0 .. (cfg[2] - 1) -> {NOBODY} \cup 0 .. (cfg[1] - 1)]
        /\ \A f \in 0 .. (cfg[2] - 1) :
              holder[f] \in {NOBODY} \cup UsersOf(f, cfg[1], cfg[2])
        /\ mtx = holder
        /\ threads = <<>>
        /\ pc = [i \in 0 .. (cfg[1] - 1) |-> "none"]
        /\ event_queue = <<>>
        /\ queue_limit = MaxEvents
        /\ ctl = "idle"
        /\ ret = [op |-> "none", arg |-> <<>>, val |-> FALSE]
        /\ banker_run = FALSE
        /\ event_mutex = NOBODY
        /\ events = <<>>
        /\ logged_events = <<>>
        /\ polled_events = <<>>
        /\ state_mutex = NOBODY
        /\ turn = NOBODY

\* request_permission(phil_id, fork_id) as philosopher_thread calls it: for
\* the left or the right fork of phil_id.
CallRequestPermission ==
    /\ \E phil_id \in Phils : \E fork_id \in {LeftOf(phil_id), RightOf(phil_id)} :
          Returned("request_permission", <<phil_id, fork_id>>,
                   request_permission(phil_id, fork_id))
    /\ UNCHANGED <<num_philosophers, num_forks, running, current_strategy,
                   states, wait_counts, eat_counts, max_wait_counts, holder,
                   mtx, threads, pc, event_queue, queue_limit, ctl,
                   banker_run, turn, logVars, state_mutex>>

PermSpec == InitPerm /\ [][CallRequestPermission]_vars

DetectConfigs == {<<3, 3>>, <<4, 4>>}

\* Any snapshot of states and holders of a simulation of one of the sizes.
InitSnapshot(sizes) ==
    \E cfg \in sizes :
        /\ num_philosophers = cfg[1]
        /\ num_forks = cfg[2]
        /\ running = FALSE
        /\ current_strategy = "NONE"
        /\ states \in [0 .. (cfg[1] - 1) -> StateNames]
        /\ wait_counts = [i \in 0 .. (cfg[1] - 1) |-> 0]
        /\ eat_counts = [i \in 0 .. (cfg[1] - 1) |-> 0]
        /\ max_wait_counts = [i \in 0 .. (cfg[1] - 1) |-> 0]
        /\ holder \in [0 .. (cfg[2] - 1) -> {NOBODY} \cup 0 .. (cfg[1] - 1)]
        /\ mtx = holder
        /\ threads = <<>>
        /\ pc = [i \in 0 .. (cfg[1] - 1) |-> "none"]
        /\ event_queue = <<>>
        /\ queue_limit = MaxEvents
        /\ ctl = "idle"
        /\ ret = [op |-> "none", arg |-> <<>>, val |-> FALSE]
        /\ banker_run = FALSE
        /\ event_mutex = NOBODY
        /\ events = <<>>
        /\ logged_events = <<>>
        /\ polled_events = <<>>
        /\ state_mutex = NOBODY
        /\ turn = NOBODY

InitDetect == InitSnapshot(DetectConfigs)

\* detect_deadlock() on the snapshot: its result and its log call.
CallDetectDeadlock ==
    /\ Returned("detect_deadlock", <<>>, detect_deadlock)
    /\ event_queue' =
          IF detect_deadlock.found
          THEN log_event(event_queue,
                         Event(NOBODY, "DEADLOCK", detect_deadlock.node))
          ELSE event_queue
    /\ UNCHANGED <<num_philosophers, num_forks, running, current_strategy,
                   states, wait_counts, eat_counts, max_wait_counts, holder,
                   mtx, threads, pc, queue_limit, ctl, banker_run, turn, logVars, state_mutex>>

DetectSpec == InitDetect /\ [][CallDetectDeadlock]_vars

\* get_resource_graph() on the snapshot.
CallGetResourceGraph ==
    /\ Returned("get_resource_graph", <<>>, get_resource_graph)
    /\ UNCHANGED <<num_philosophers, num_forks, running, current_strategy,
                   states, wait_counts, eat_counts, max_wait_counts, holder,
                   mtx, threads, pc, event_queue, queue_limit, ctl,
                   banker_run, turn, logVars, state_mutex>>

GraphConfigs == {<<3, 3>>, <<3, 4>>, <<4, 3>>}

InitGraph == InitSnapshot(GraphConfigs)

GraphSpec == InitGraph /\ [][CallGetResourceGraph]_vars

\* ------------------------------------------------------ event log alone
\* Number of the next synthetic event: one more than the newest buffered.
next_serial ==
    IF event_queue = <<>> THEN 1 ELSE event_queue[Len(event_queue)][3] + 1

\* log_event(-1, "SYNTH", k) for k = 1, 2, ... since the last poll.
CallLogEvent ==
    /\ next_serial <= queue_limit + MaxOverflow
    /\ event_queue' = log_event(event_queue, Event(NOBODY, "SYNTH", next_serial))
    /\ UNCHANGED <<num_philosophers, num_forks, running, current_strategy,
                   states, wait_counts, eat_counts, max_wait_counts, holder,
                   mtx, threads, pc, queue_limit, ctl, ret, banker_run, turn, logVars, state_mutex>>

\* Numbers of events already logged, and not polled, when the calls begin.
LoggedBefore == {0, QUEUE_CAPACITY - 1, QUEUE_CAPACITY}

\* The queue after k log_event calls, k <= QUEUE_CAPACITY: all k events.
synth_events(k) == [j \in 1 .. k |-> Event(NOBODY, "SYNTH", j)]

InitLog ==
    /\ \E k \in LoggedBefore :
          Constructed(1, 1, QUEUE_CAPACITY, synth_events(k))
    /\ turn = NOBODY

NextLog == CallLogEvent \/ PollEvents

LogSpec == InitLog /\ [][NextLog]_vars

\* ------------------------------------------- scripted run, round robin
\* create(n, m); set_strategy(1); start(); no stop(). The threads are run
\* in rotation, one step each, which is one fair schedule among those the
\* operating system may produce.
ScenarioConfigs == {<<5, 4>>, <<1, 2>>}

InitScenario ==
    /\ \E cfg \in ScenarioConfigs : Construct(cfg[1], cfg[2], MaxEvents)
    /\ turn = 0

ScenarioSetStrategy == ~running /\ current_strategy = "NONE" /\ SetStrategy(1)

ScenarioStart == ~running /\ current_strategy = "BANKER" /\ Start

NextScenario == ScenarioSetStrategy \/ ScenarioStart \/ StartLog \/ Agent

RoundRobinSpec ==
    InitScenario /\ [][NextScenario]_vars /\ WF_vars(NextScenario)

\* ---------------------------------------------------------- construction
\* Arguments the constructor is called with.
CreateArgs == (-3) .. 6

\* What Simulation(n_phil, n_forks) can end with. A negative n_phil becomes
\* a size above max_size() and the vector constructors of lines 26-29
\* throw. With n_phil > 0 and n_forks = 0, line 41 divides by zero: the
\* behaviour is undefined, the build either traps or goes on. Nothing else
\* in lines 22-55 tests the arguments.
construct_outcomes(n_phil, n_forks) ==
    IF n_phil < 0 THEN {"exception"}
    ELSE IF n_phil > 0 /\ n_forks = 0 THEN {"trap", "constructed"}
    ELSE {"constructed"}

\* No Simulation object yet.
InitCreate ==
    /\ num_philosophers = 0
    /\ num_forks = 0
    /\ running = FALSE
    /\ current_strategy = "NONE"
    /\ states = <<>>
    /\ wait_counts = <<>>
    /\ eat_counts = <<>>
    /\ max_wait_counts = <<>>
    /\ holder = <<>>
    /\ mtx = <<>>
    /\ threads = <<>>
    /\ pc = <<>>
    /\ event_queue = <<>>
    /\ queue_limit = QUEUE_CAPACITY
    /\ ctl = "idle"
    /\ ret = [op |-> "none", arg |-> <<>>, val |-> "none"]
    /\ banker_run = FALSE
    /\ turn = NOBODY
    /\ event_mutex = NOBODY
    /\ events = <<>>
    /\ logged_events = <<>>
    /\ polled_events = <<>>
    /\ state_mutex = NOBODY

\* Simulation(n_phil, n_forks), lines 22-55: the members as initialised,
\* when the constructor returns.
Create(n_phil, n_forks) ==
    /\ ret.op = "none"
    /\ \E outcome \in construct_outcomes(n_phil, n_forks) :
          /\ Returned("create", <<n_phil, n_forks>>, outcome)
          /\ IF outcome = "constructed"
             THEN /\ num_philosophers' = n_phil
                  /\ num_forks' = n_forks
                  /\ states' = [i \in 0 .. (n_phil - 1) |-> "THINKING"]
                  /\ wait_counts' = [i \in 0 .. (n_phil - 1) |-> 0]
                  /\ eat_counts' = [i \in 0 .. (n_phil - 1) |-> 0]
                  /\ max_wait_counts' = [i \in 0 .. (n_phil - 1) |-> 0]
                  /\ holder' = [f \in 0 .. (n_forks - 1) |-> NOBODY]
                  /\ mtx' = [f \in 0 .. (n_forks - 1) |-> NOBODY]
                  /\ pc' = [i \in 0 .. (n_phil - 1) |-> "none"]
             ELSE UNCHANGED <<num_philosophers, num_forks, states,
                              wait_counts, eat_counts, max_wait_counts,
                              holder, mtx, pc>>
    /\ UNCHANGED <<running, current_strategy, threads, event_queue,
                   queue_limit, ctl, banker_run, turn, logVars, state_mutex>>

NextCreate == \E n_phil \in CreateArgs : \E n_forks \in CreateArgs :
                  Create(n_phil, n_forks)

CreateSpec == InitCreate /\ [][NextCreate]_vars

\* ------------------------------------------- event log, step by step
\* log_event calls of the philosopher threads and poll_events calls of the
\* controlling thread, with every statement under event_mutex a step.
\* Number of log_event calls each thread makes.
MaxLogs == 2

\* The controlling thread, as an owner of event_mutex.
Controller == num_philosophers

\* Number of events thread id has pushed so far.
pushed_by(id) ==
    Cardinality({k \in 1 .. Len(logged_events) : logged_events[k][1] = id})

\* Variant: a lock that lets every caller in.
lock_never_waits(m) == TRUE

\* WinMutex::lock returns once the mutex, owned by m, is free.
lock_returns(m) == m = NOBODY

\* log_event, line 107: WinLockGuard lock(event_mutex)
EvLock(id) ==
    /\ pc[id] = "ev_call"
    /\ pushed_by(id) < MaxLogs
    /\ lock_returns(event_mutex)
    /\ event_mutex' = id
    /\ pc' = [pc EXCEPT ![id] = "ev_push"]
    /\ UNCHANGED <<num_philosophers, num_forks, running, current_strategy,
                   states, wait_counts, eat_counts, max_wait_counts, holder,
                   mtx, threads, event_queue, queue_limit, ctl, ret,
                   banker_run, turn, events, logged_events, polled_events,
                   state_mutex>>

\* log_event, line 110: push_back
EvPush(id) ==
    /\ pc[id] = "ev_push"
    /\ event_queue' =
          Append(event_queue, Event(id, "SYNTH", pushed_by(id) + 1))
    /\ logged_events' =
          Append(logged_events, Event(id, "SYNTH", pushed_by(id) + 1))
    /\ pc' = [pc EXCEPT ![id] = "ev_trim"]
    /\ UNCHANGED <<num_philosophers, num_forks, running, current_strategy,
                   states, wait_counts, eat_counts, max_wait_counts, holder,
                   mtx, threads, queue_limit, ctl, ret, banker_run, turn,
                   event_mutex, events, polled_events, state_mutex>>

\* log_event, lines 112-113: pop_front when over the capacity; the guard
\* unlocks.
EvTrim(id) ==
    /\ pc[id] = "ev_trim"
    /\ event_queue' =
          IF Len(event_queue) > queue_limit THEN Tail(event_queue)
          ELSE event_queue
    /\ event_mutex' = NOBODY
    /\ pc' = [pc EXCEPT ![id] = "ev_call"]
    /\ UNCHANGED <<num_philosophers, num_forks, running, current_strategy,
                   states, wait_counts, eat_counts, max_wait_counts, holder,
                   mtx, threads, queue_limit, ctl, ret, banker_run, turn,
                   events, logged_events, polled_events, state_mutex>>

\* poll_events, line 117: WinLockGuard lock(event_mutex)
PollLock ==
    /\ ctl = "idle"
    /\ lock_returns(event_mutex)
    /\ event_mutex' = Controller
    /\ ctl' = "poll_copy"
    /\ UNCHANGED <<num_philosophers, num_forks, running, current_strategy,
                   states, wait_counts, eat_counts, max_wait_counts, holder,
                   mtx, threads, pc, event_queue, queue_limit, ret,
                   banker_run, turn, events, logged_events, polled_events,
                   state_mutex>>

\* poll_events, line 118: the vector is built from the queue
PollCopy ==
    /\ ctl = "poll_copy"
    /\ events' = event_queue
    /\ ctl' = "poll_clear"
    /\ UNCHANGED <<num_philosophers, num_forks, running, current_strategy,
                   states, wait_counts, eat_counts, max_wait_counts, holder,
                   mtx, threads, pc, event_queue, queue_limit, ret,
                   banker_run, turn, event_mutex, logged_events,
                   polled_events, state_mutex>>

\* poll_events, line 119: event_queue.clear()
PollClear ==
    /\ ctl = "poll_clear"
    /\ event_queue' = <<>>
    /\ ctl' = "poll_return"
    /\ UNCHANGED <<num_philosophers, num_forks, running, current_strategy,
                   states, wait_counts, eat_counts, max_wait_counts, holder,
                   mtx, threads, pc, queue_limit, ret, banker_run, turn,
                   event_mutex, events, logged_events, polled_events,
                   state_mutex>>

\* poll_events, lines 120-121: return events; the guard unlocks.
PollReturn ==
    /\ ctl = "poll_return"
    /\ ret' = [op |-> "poll_events", arg |-> <<>>, val |-> events]
    /\ polled_events' = polled_events \o events
    /\ events' = <<>>
    /\ event_mutex' = NOBODY
    /\ ctl' = "idle"
    /\ UNCHANGED <<num_philosophers, num_forks, running, current_strategy,
                   states, wait_counts, eat_counts, max_wait_counts, holder,
                   mtx, threads, pc, event_queue, queue_limit, banker_run,
                   turn, logged_events, state_mutex>>

EventConfigs == {<<2, 2>>}

\* A running simulation whose threads are each about to call log_event.
InitEvent ==
    \E cfg \in EventConfigs :
        /\ num_philosophers = cfg[1]
        /\ num_forks = cfg[2]
        /\ running = TRUE
        /\ current_strategy = "NONE"
        /\ states = [i \in 0 .. (cfg[1] - 1) |-> "THINKING"]
        /\ wait_counts = [i \in 0 .. (cfg[1] - 1) |-> 0]
        /\ eat_counts = [i \in 0 .. (cfg[1] - 1) |-> 0]
        /\ max_wait_counts = [i \in 0 .. (cfg[1] - 1) |-> 0]
        /\ holder = [f \in 0 .. (cfg[2] - 1) |-> NOBODY]
        /\ mtx = [f \in 0 .. (cfg[2] - 1) |-> NOBODY]
        /\ threads = [k \in 1 .. cfg[1] |-> k - 1]
        /\ pc = [i \in 0 .. (cfg[1] - 1) |-> "ev_call"]
        /\ event_queue = <<>>
        /\ queue_limit = QUEUE_CAPACITY
        /\ ctl = "idle"
        /\ ret = [op |-> "none", arg |-> <<>>, val |-> <<>>]
        /\ banker_run = FALSE
        /\ turn = NOBODY
        /\ event_mutex = NOBODY
        /\ events = <<>>
        /\ logged_events = <<>>
        /\ polled_events = <<>>
        /\ state_mutex = NOBODY

NextEvent ==
    \/ (\E id \in Phils : EvLock(id))
    \/ (\E id \in Phils : EvPush(id))
    \/ (\E id \in Phils : EvTrim(id))
    \/ PollLock
    \/ PollCopy
    \/ PollClear
    \/ PollReturn

EventSpec == InitEvent /\ [][NextEvent]_vars

\* --------------------------------------------- state_mutex, step by step
\* The philosopher threads with the taking of state_mutex a step of its
\* own: a thread first gets the mutex, then runs the critical section its
\* position opens, and another thread may run in between.
\* WinLockGuard lock(state_mutex), lines 230, 238, 266 and 308, and line 193
\* in request_permission.
LockState(id) ==
    /\ step_mutexes(pc[id]) = <<"state_mutex">>
    /\ lock_returns(state_mutex)
    /\ state_mutex' = id
    /\ UNCHANGED <<num_philosophers, num_forks, running, current_strategy,
                   states, wait_counts, eat_counts, max_wait_counts, holder,
                   mtx, threads, pc, event_queue, queue_limit, ctl, ret,
                   banker_run, turn, logVars>>

\* Thread id is past the WinLockGuard of the critical section it is at.
InSection(id) == state_mutex = id

\* The Sleep calls of the thread, lines 234, 255, 276, 293, 300 and 312:
\* the position of the step before the call and the position after it.
SleepSite ==
    { <<"log_think", "hungry">>, <<"log_acq_left", "req_right">>,
      <<"log_eat", "clr_right">>, <<"b_log_rel", "inc_wait">>,
      <<"d_log_rel", "inc_wait">>, <<"inc_wait", "retry">> }

\* set_strategy, line 99: the controlling thread waits for state_mutex.
LockedSetStrategy(strategy_code) ==
    lock_returns(state_mutex) /\ SetStrategy(strategy_code)

LockConfigs == {<<2, 2>>}

LockCodes == {0, 1}

InitLock ==
    /\ \E cfg \in LockConfigs : Construct(cfg[1], cfg[2], MaxEvents)
    /\ turn = NOBODY

NextLock ==
    \/ (\E id \in Phils : LockState(id))
    \/ (\E id \in Phils : LoopHead(id))
    \/ (\E id \in Phils : InSection(id) /\ Think(id))
    \/ (\E id \in Phils : Log(id))
    \/ (\E id \in Phils : InSection(id) /\ Hungry(id))
    \/ (\E id \in Phils : Retry(id))
    \/ (\E id \in Phils : InSection(id) /\ ReqLeft(id))
    \/ (\E id \in Phils : TryLeft(id))
    \/ (\E id \in Phils : SetLeft(id))
    \/ (\E id \in Phils : InSection(id) /\ ReqRight(id))
    \/ (\E id \in Phils : TryRight(id))
    \/ (\E id \in Phils : SetRight(id))
    \/ (\E id \in Phils : InSection(id) /\ Eat(id))
    \/ (\E id \in Phils : ClearHolder(id))
    \/ (\E id \in Phils : Unlock(id))
    \/ (\E id \in Phils : InSection(id) /\ IncWait(id))
    \/ Start \/ StartLog \/ StopCall \/ StopReturn
    \/ (\E code \in LockCodes : LockedSetStrategy(code))

LockSpec == InitLock /\ [][NextLock]_vars

\* ------------------------------------------------- shutdown, fair threads
\* start() and stop() called again and again on a simulation whose threads
\* are scheduled fairly: a thread that can take a step is not left without
\* the processor for ever (the threads are operating-system threads), and a
\* join whose thread has exited returns. running is volatile: the test of
\* lines 227 and 245 reads the flag each time.
ShutdownConfigs == {<<2, 2>>, <<2, 1>>}

InitShutdown ==
    /\ \E cfg \in ShutdownConfigs : Construct(cfg[1], cfg[2], MaxEvents)
    /\ turn = NOBODY

NextShutdown ==
    \/ Agent
    \/ Start \/ StartLog \/ StopCall \/ StopReturn

ShutdownSpec ==
    InitShutdown /\ [][NextShutdown]_vars /\ WF_vars(Agent) /\ WF_vars(StopReturn)

\* ------------------------------------- strategy NONE, threads in rotation
\* create(n, m); start(); no stop(), no set_strategy(). The threads are run
\* in rotation, one step each: a schedule that is fair to every thread.
NoneConfigs == {<<2, 2>>, <<1, 2>>}

InitNone ==
    /\ \E cfg \in NoneConfigs : Construct(cfg[1], cfg[2], MaxEvents)
    /\ turn = 0

NoneStart == ~running /\ Start

NextNone == NoneStart \/ StartLog \/ Agent

FairNoneSpec == InitNone /\ [][NextNone]_vars /\ WF_vars(NextNone)

\* ------------------------------------------------ is_safe_state alone
\* The orders in which the philosophers can be scanned.
ScanOrders ==
    {order \in [1 .. num_philosophers -> Phils] :
        \A j, k \in 1 .. num_philosophers : order[j] = order[k] => j = k}

SafeConfigs == {<<3, 3>>, <<3, 4>>, <<4, 3>>, <<4, 4>>}

\* Any snapshot of the holders; a philosopher that holds a fork is HUNGRY.
InitSafe ==
    /\ InitSnapshot(SafeConfigs)
    /\ \A i \in Phils :
          states[i] = IF \E f \in Forks : holder[f] = i THEN "HUNGRY"
                      ELSE "THINKING"

\* One call of is_safe_state(phil_id, fork_id) on the snapshot, as the code
\* scans and as it would scan in the given order.
CallIsSafeState ==
    /\ ret.op = "none"
    /\ \E order \in ScanOrders : \E phil_id \in Phils : \E fork_id \in Forks :
          Returned("is_safe_state", <<order, phil_id, fork_id>>,
                   <<is_safe_state(phil_id, fork_id),
                     is_safe_state_in(order, phil_id, fork_id)>>)
    /\ UNCHANGED <<num_philosophers, num_forks, running, current_strategy,
                   states, wait_counts, eat_counts, max_wait_counts, holder,
                   mtx, threads, pc, event_queue, queue_limit, ctl,
                   banker_run, turn, logVars, state_mutex>>

SafeSpec == InitSafe /\ [][CallIsSafeState]_vars

\* ------------------------------------------------ every lock, step by step
\* The philosopher threads and one thread that calls the facade, with the
\* taking of state_mutex and of event_mutex steps of their own, so that a
\* task can be seen waiting for a mutex another task owns.
\* The thread that calls set_strategy, detect_deadlock, get_states,
\* get_resource_graph and poll_events, as the owner of a mutex.
caller == num_philosophers

Tasks == Phils \cup {caller}

\* log_event, line 107, called by thread id: WinLockGuard lock(event_mutex)
LockEvent(id) ==
    /\ step_mutexes(pc[id]) = <<"event_mutex">>
    /\ lock_returns(event_mutex)
    /\ event_mutex' = id
    /\ UNCHANGED <<num_philosophers, num_forks, running, current_strategy,
                   states, wait_counts, eat_counts, max_wait_counts, holder,
                   mtx, threads, pc, event_queue, queue_limit, ctl, ret,
                   banker_run, turn, events, logged_events, polled_events,
                   state_mutex>>

\* log_event, line 113: the guard goes out of scope once the event is pushed.
UnlockEvent(id) ==
    /\ event_mutex = id
    /\ step_mutexes(pc[id]) # <<"event_mutex">>
    /\ event_mutex' = NOBODY
    /\ UNCHANGED <<num_philosophers, num_forks, running, current_strategy,
                   states, wait_counts, eat_counts, max_wait_counts, holder,
                   mtx, threads, pc, event_queue, queue_limit, ctl, ret,
                   banker_run, turn, events, logged_events, polled_events,
                   state_mutex>>

\* The facade functions that take no argument and lock a mutex.
PlainCalls ==
    {"detect_deadlock", "get_states", "get_resource_graph", "poll_events"}

\* The blocking mutexes a facade function takes, outermost first: lines 99
\* and 107, 320 and 107, 378, 354, 117.
facade_mutexes(op) ==
    CASE op = "set_strategy" -> set_strategy_mutexes
      [] op = "detect_deadlock" -> detect_deadlock_mutexes
      [] op \in {"get_states", "get_resource_graph"} -> <<"state_mutex">>
      [] op = "poll_events" -> <<"event_mutex">>

\* The mutex the calling thread is waiting for at its position.
caller_wants ==
    IF ctl = "wait1" THEN facade_mutexes(ret.op)[1]
    ELSE IF ctl = "wait2"
         THEN IF ret.op = "detect_deadlock" THEN "event_mutex"
              ELSE facade_mutexes(ret.op)[2]
         ELSE "none"

\* The calling thread enters a facade function and comes to its first
\* WinLockGuard.
FacadeEnter(op, arg) ==
    /\ ctl = "idle"
    /\ ctl' = "wait1"
    /\ ret' = [op |-> op, arg |-> arg, val |-> FALSE]
    /\ UNCHANGED <<num_philosophers, num_forks, running, current_strategy,
                   states, wait_counts, eat_counts, max_wait_counts, holder,
                   mtx, threads, pc, event_queue, queue_limit, banker_run,
                   turn, logVars, state_mutex>>

\* WinMutex::lock returns for the calling thread. With state_mutex it runs
\* what the function does under it: lines 100-101, 321-347, 379-381, 355-373.
FacadeLock ==
    /\ ctl \in {"wait1", "wait2"}
    /\ IF caller_wants = "state_mutex"
       THEN /\ lock_returns(state_mutex)
            /\ state_mutex' = caller
            /\ event_mutex' = event_mutex
            /\ current_strategy' =
                  IF ret.op = "set_strategy" THEN strategy_of(ret.arg)
                  ELSE current_strategy
            /\ banker_run' =
                  IF ret.op = "set_strategy" THEN banker_run /\ ret.arg = 1
                  ELSE banker_run
            /\ ret' =
                  CASE ret.op = "detect_deadlock" ->
                          [ret EXCEPT !.val = detect_deadlock]
                    [] ret.op = "get_states" ->
                          [ret EXCEPT !.val = get_states]
                    [] ret.op = "get_resource_graph" ->
                          [ret EXCEPT !.val = get_resource_graph]
                    [] OTHER -> ret
       ELSE /\ lock_returns(event_mutex)
            /\ event_mutex' = caller
            /\ UNCHANGED <<state_mutex, current_strategy, banker_run, ret>>
    /\ ctl' = IF ctl = "wait1" /\ Len(facade_mutexes(ret.op)) = 2
              THEN "wait2"
              ELSE "ret"
    /\ UNCHANGED <<num_philosophers, num_forks, running, states, wait_counts,
                   eat_counts, max_wait_counts, holder, mtx, threads, pc,
                   event_queue, queue_limit, turn, events, logged_events,
                   polled_events>>

\* The calling thread, with every mutex of the function taken, does what is
\* done under event_mutex (lines 110-112, 118-119), gives the mutexes back
\* and returns; the value handed to the caller is not kept.
FacadeReturn ==
    /\ ctl = "ret"
    /\ event_queue' =
          CASE ret.op = "set_strategy" ->
                  log_event(event_queue,
                            Event(NOBODY, "SYSTEM",
                                  "Strategy changed to " \o ToString(ret.arg)))
            [] ret.op = "detect_deadlock" ->
                  IF ret.val.found
                  THEN log_event(event_queue,
                                 Event(NOBODY, "DEADLOCK", ret.val.node))
                  ELSE event_queue
            [] ret.op = "poll_events" -> <<>>
            [] OTHER -> event_queue
    /\ state_mutex' = IF state_mutex = caller THEN NOBODY ELSE state_mutex
    /\ event_mutex' = IF event_mutex = caller THEN NOBODY ELSE event_mutex
    /\ ctl' = "idle"
    /\ ret' = [op |-> "none", arg |-> <<>>, val |-> FALSE]
    /\ UNCHANGED <<num_philosophers, num_forks, running, current_strategy,
                   states, wait_counts, eat_counts, max_wait_counts, holder,
                   mtx, threads, pc, queue_limit, banker_run, turn, events,
                   logged_events, polled_events>>

\* The mutex task t is waiting for, "none" when it is not at a lock call.
task_wants(t) ==
    IF t = caller THEN caller_wants
    ELSE IF event_mutex = t \/ state_mutex = t \/ step_mutexes(pc[t]) = <<>>
         THEN "none"
         ELSE step_mutexes(pc[t])[1]

mutex_owner(m) ==
    IF m = "state_mutex" THEN state_mutex
    ELSE IF m = "event_mutex" THEN event_mutex
    ELSE NOBODY

\* The task that owns the mutex t is waiting for, NOBODY when t can go on.
blocked_by(t) == mutex_owner(task_wants(t))

OrderConfigs == {<<2, 2>>}

\* Events the queue keeps while the locks are followed: log_event and
\* poll_events take event_mutex all the same.
OrderEvents == 0

InitOrder ==
    /\ \E cfg \in OrderConfigs : Construct(cfg[1], cfg[2], OrderEvents)
    /\ turn = NOBODY

NextOrder ==
    \/ (\E id \in Phils : event_mutex # id /\ LockState(id))
    \/ (\E id \in Phils : LockEvent(id))
    \/ (\E id \in Phils : UnlockEvent(id))
    \/ (\E id \in Phils : event_mutex # id /\ LoopHead(id))
    \/ (\E id \in Phils : InSection(id) /\ Think(id))
    \/ (\E id \in Phils : event_mutex = id /\ Log(id))
    \/ (\E id \in Phils : InSection(id) /\ Hungry(id))
    \/ (\E id \in Phils : event_mutex # id /\ Retry(id))
    \/ (\E id \in Phils : InSection(id) /\ ReqLeft(id))
    \/ (\E id \in Phils : TryLeft(id))
    \/ (\E id \in Phils : SetLeft(id))
    \/ (\E id \in Phils : InSection(id) /\ ReqRight(id))
    \/ (\E id \in Phils : TryRight(id))
    \/ (\E id \in Phils : SetRight(id))
    \/ (\E id \in Phils : InSection(id) /\ Eat(id))
    \/ (\E id \in Phils : event_mutex # id /\ ClearHolder(id))
    \/ (\E id \in Phils : Unlock(id))
    \/ (\E id \in Phils : InSection(id) /\ IncWait(id))
    \/ Start
    \/ (lock_returns(event_mutex) /\ StartLog)
    \/ (\E code \in LockCodes : FacadeEnter("set_strategy", code))
    \/ (\E op \in PlainCalls : FacadeEnter(op, <<>>))
    \/ FacadeLock
    \/ FacadeReturn

OrderSpec == InitOrder /\ [][NextOrder]_vars

\* ------------------------------------------------ the log of a short run
\* A started simulation, followed until MaxHistory events are logged: the
\* queue then holds the whole log, and no event was dropped.
MaxHistory == 9

HistoryConfigs == {<<2, 2>>}

InitHistory ==
    /\ \E cfg \in HistoryConfigs : Construct(cfg[1], cfg[2], MaxHistory)
    /\ turn = NOBODY

\* The log has fewer than MaxHistory events.
log_has_room == Len(event_queue) < queue_limit

\* The log has room for the events of one stop().
stop_has_room == Len(event_queue) + num_philosophers + 1 <= queue_limit

NextHistory ==
    \/ (log_has_room /\ Start)
    \/ (log_has_room /\ StartLog)
    \/ (stop_has_room /\ StopCall)
    \/ (stop_has_room /\ StopReturn)
    \/ (\E id \in Phils : log_has_room /\ LoopHead(id))
    \/ (\E id \in Phils : log_has_room /\ Think(id))
    \/ (\E id \in Phils : log_has_room /\ Log(id))
    \/ (\E id \in Phils : log_has_room /\ Hungry(id))
    \/ (\E id \in Phils : log_has_room /\ Retry(id))
    \/ (\E id \in Phils : log_has_room /\ ReqLeft(id))
    \/ (\E id \in Phils : log_has_room /\ TryLeft(id))
    \/ (\E id \in Phils : log_has_room /\ SetLeft(id))
    \/ (\E id \in Phils : log_has_room /\ ReqRight(id))
    \/ (\E id \in Phils : log_has_room /\ TryRight(id))
    \/ (\E id \in Phils : log_has_room /\ SetRight(id))
    \/ (\E id \in Phils : log_has_room /\ Eat(id))
    \/ (\E id \in Phils : log_has_room /\ ClearHolder(id))
    \/ (\E id \in Phils : log_has_room /\ Unlock(id))
    \/ (\E id \in Phils : log_has_room /\ IncWait(id))

HistorySpec == InitHistory /\ [][NextHistory]_vars

\* ================================================================ claims
\* Positions at which a thread owns the lock of its left / right fork.
HoldsLeftAt ==
    {"set_left", "log_acq_left", "req_right", "try_right", "set_right",
     "log_acq_right", "eat", "log_eat", "clr_right", "unlock_right",
     "log_rel_right", "clr_left", "unlock_left", "b_clr_left",
     "b_unlock_left", "d_clr_left", "d_unlock_left"}

HoldsRightAt ==
    {"set_right", "log_acq_right", "eat", "log_eat", "clr_right",
     "unlock_right"}

Owns(a, f) ==
    \/ (f = LeftOf(a) /\ pc[a] \in HoldsLeftAt)
    \/ (f = RightOf(a) /\ pc[a] \in HoldsRightAt)

\* C1: mutual exclusion. In every reachable state each fork is owned by at
\* most one philosopher thread, and a fork whose holder field is set is
\* owned, lock included, by exactly that philosopher.
C1_MutualExclusion ==
    \A f \in Forks :
        /\ \A a, b \in Phils : (Owns(a, f) /\ Owns(b, f)) => a = b
        /\ holder[f] # NOBODY => (Owns(holder[f], f) /\ mtx[f] = holder[f])

\* C1 witness: a philosopher tries to lock a fork that another one owns.
C1_Contended ==
    \E a, b \in Phils : \E f \in Forks :
        /\ a # b
        /\ Owns(a, f)
        /\ \/ (pc[b] = "try_left" /\ f = LeftOf(b))
           \/ (pc[b] = "try_right" /\ f = RightOf(b))

\* C2: with BANKER selected before start() and never changed,
\* detect_deadlock() returns true in no reachable state.
C2_BankerNeverDeadlock == banker_run => ~detect_deadlock.found

RECURSIVE SumEat(_)
SumEat(i) == IF i >= num_philosophers THEN 0 ELSE eat_counts[i] + SumEat(i + 1)

\* The sum of eat_count has reached k, or a counter has left the range in
\* which the model counts it exactly.
MealsSeen(k) == SumEat(0) >= k \/ (\E i \in Phils : eat_counts[i] >= MaxEat)

\* C3: after create(5,4); set_strategy(1); start(), with no stop() and the
\* threads scheduled fairly, the sum of eat_count eventually reaches 20.
C3_TwentyMealsEventually ==
    (num_philosophers = 5 /\ num_forks = 4) => <>MealsSeen(20)

\* C4: no phantom holder. Every triple (a, r, 1) of get_resource_graph()
\* names the philosopher that holds r at that moment.
C4_NoPhantomHolder ==
    \A k \in 1 .. Len(get_resource_graph) :
        get_resource_graph[k][3] = 1 =>
            holder[get_resource_graph[k][2]] = get_resource_graph[k][1]

\* The three gates of the admission controller, as the contract states them.
SharesFork(a, c) ==
    {LeftOf(a), RightOf(a)} \cap {LeftOf(c), RightOf(c)} # {}

StarvedRival(a, c) ==
    /\ c # a
    /\ SharesFork(a, c)
    /\ states[c] = "HUNGRY"
    /\ wait_counts[c] > 10
    /\ wait_counts[c] > wait_counts[a]

GatesPass(a, r) ==
    /\ holder[r] = NOBODY
    /\ ~(\E c \in Phils : StarvedRival(a, c))
    /\ (current_strategy = "NONE" \/ is_safe_state(a, r))

\* C5: request_permission(a, r) returns true exactly when the fork is free,
\* no hungry competitor has waited more than 10 times and more than a, and
\* the strategy is NONE or is_safe_state(a, r) holds.
C5_PermissionIsThreeGates ==
    ret.op = "request_permission" =>
        (ret.val <=> GatesPass(ret.arg[1], ret.arg[2]))

\* C5 witness: under BANKER, a request that the first and the third gate
\* pass is denied for a more-starved competitor.
C5_DeniedForStarvedRival ==
    /\ ret.op = "request_permission"
    /\ ret.val = FALSE
    /\ current_strategy = "BANKER"
    /\ holder[ret.arg[2]] = NOBODY
    /\ is_safe_state(ret.arg[1], ret.arg[2])
    /\ \E c \in Phils : StarvedRival(ret.arg[1], c)

\* The wait-for relation, as the contract states it.
WaitsFor(i, j) ==
    /\ states[i] = "HUNGRY"
    /\ j # NOBODY
    /\ j # i
    /\ \/ holder[LeftOf(i)] = j
       \/ (holder[LeftOf(i)] = i /\ holder[RightOf(i)] = j)

\* A nonempty set of philosophers each waiting for a member of the set.
HasWaitCycle ==
    \E S \in SUBSET Phils :
        /\ S # {}
        /\ \A i \in S : \E j \in S : WaitsFor(i, j)

\* C6: on every snapshot detect_deadlock() returns true exactly when the
\* wait-for map contains a cycle, and each chain walk ends within
\* num_philosophers steps.
C6_DetectsExactlyCycles ==
    ret.op = "detect_deadlock" =>
        /\ ret.val.found <=> HasWaitCycle
        /\ ret.val.steps <= num_philosophers

\* C6 witness: two hungry philosophers, each waiting for a fork the other
\* holds, and the detector has answered true.
C6_MutualWaitDetected ==
    /\ ret.op = "detect_deadlock"
    /\ ret.val.found
    /\ \E i, j \in Phils : i # j /\ WaitsFor(i, j) /\ WaitsFor(j, i)

\* C7: when stop() has returned, every thread of the preceding start() has
\* exited and the task set is empty, and no philosopher step happens until
\* the next start().
C7_StopJoinsEveryTask ==
    /\ [](ctl = "idle" /\ ~running =>
            threads = <<>> /\ (\A i \in Phils : pc[i] = "none"))
    /\ [][(ctl = "idle" /\ ~running /\ ~running') =>
            UNCHANGED <<states, wait_counts, eat_counts, holder, mtx, pc>>]_vars

\* C7 witness: stop() has returned on a simulation whose thread was hungry.
C7_StoppedWhileHungry ==
    /\ ctl = "idle"
    /\ ~running
    /\ \E i \in Phils : states[i] = "HUNGRY"

NoDuplicateTask ==
    \A j, k \in 1 .. Len(threads) : threads[j] = threads[k] => j = k

\* C8: start() on a running simulation spawns no task and starts no
\* "Simulation started" log call, so there is at most one task per
\* philosopher.
C8_StartWhileRunningIsNoOp ==
    /\ []NoDuplicateTask
    /\ [][running =>
            (threads' = threads /\ (ctl' = "starting" => ctl = "starting"))]_vars

\* C8 witness: a running simulation, its start() complete, a philosopher
\* eating.
C8_RunningAndIdle ==
    /\ running
    /\ ctl = "idle"
    /\ \E i \in Phils : states[i] = "EATING"

\* A step of a stop() that was called on a simulation that is not running.
SecondStopStep ==
    \/ (ctl = "idle" /\ ctl' = "stopping" /\ ~running)
    \/ (ctl = "stopping" /\ ctl' = "idle" /\ threads = <<>>)

\* C9: a stop() directly after a stop() joins no task and leaves states,
\* wait_counts, max_wait_counts, eat_counts, holders and the task set as
\* they were.
C9_SecondStopChangesNothing ==
    [][SecondStopStep =>
          /\ threads = <<>>
          /\ UNCHANGED <<states, wait_counts, max_wait_counts, eat_counts,
                         holder, mtx, threads>>]_vars

\* C9 witness: a second stop() is in progress and a philosopher was stopped
\* hungry with failed attempts on its count.
C9_SecondStopInProgress ==
    /\ ctl = "stopping"
    /\ threads = <<>>
    /\ \E i \in Phils : states[i] = "HUNGRY" /\ wait_counts[i] > 0

\* C10: the queue never holds more than 5000 events, and it holds the
\* newest ones in logging order: after k logs without a poll it holds
\* events k - min(k, 5000) + 1 .. k.
C10_QueueKeepsNewest ==
    LET n == Len(event_queue)
        logged == next_serial - 1
    IN /\ n <= 5000
       /\ n = IF logged < 5000 THEN logged ELSE 5000
       /\ \A j \in 1 .. n :
             event_queue[j] = Event(NOBODY, "SYNTH", logged - n + j)

\* C10 witness: 5001 events logged without a poll; the first is gone.
C10_FirstEventDropped ==
    /\ Len(event_queue) = 5000
    /\ event_queue[1] = Event(NOBODY, "SYNTH", 2)
    /\ event_queue[5000] = Event(NOBODY, "SYNTH", 5001)

\* C11: poll_events returns the buffered events in logging order and leaves
\* the queue empty, atomically with respect to the log calls of the threads:
\* every event logged is returned by exactly one poll, and the poll results,
\* concatenated and followed by what is still buffered, are the events in
\* the order they were logged (a poll about to return counts with its
\* result).
C11_PollConsumesOnce ==
    /\ polled_events \o (IF ctl = "poll_return" THEN events ELSE <<>>)
           \o event_queue = logged_events
    /\ ctl = "poll_clear" => events = event_queue
    /\ ctl = "poll_return" => event_queue = <<>>

\* C11 witness: a poll has returned events of both threads, in the middle
\* of the logging, and later events are buffered again.
C11_PolledBetweenLogs ==
    /\ ret.op = "poll_events"
    /\ \E j, k \in 1 .. Len(ret.val) : ret.val[j][1] # ret.val[k][1]
    /\ polled_events # <<>>
    /\ event_queue # <<>>
    /\ ctl = "idle"

\* The triples the contract lists for agent i.
TriplesOf(i) ==
    LET L == (i * num_forks) \div num_philosophers
        R == (L + 1) % num_forks
    IN CASE states[i] = "EATING" -> << <<i, L, 1>>, <<i, R, 1>> >>
         [] states[i] = "HUNGRY" /\ holder[L] = i ->
                << <<i, L, 1>>, <<i, R, 0>> >>
         [] states[i] = "HUNGRY" /\ holder[L] # i -> << <<i, L, 0>> >>
         [] OTHER -> <<>>

\* The triples of agents 0 .. n - 1, in agent order.
RECURSIVE TriplesBelow(_)
TriplesBelow(n) ==
    IF n = 0 THEN <<>> ELSE TriplesBelow(n - 1) \o TriplesOf(n - 1)

\* C12: get_resource_graph() returns, in agent order, both forks with flag
\* 1 for an EATING agent, (left, 1) and (right, 0) for a HUNGRY agent that
\* holds its left fork, (left, 0) for a HUNGRY agent that does not, and
\* nothing for a THINKING agent.
C12_GraphListsStatesAndHolders ==
    ret.op = "get_resource_graph" => ret.val = TriplesBelow(num_philosophers)

\* C12 witness: a graph returned for a snapshot with an EATING agent, a
\* HUNGRY agent holding its left fork and a HUNGRY agent not holding it.
C12_GraphOfMixedSnapshot ==
    /\ ret.op = "get_resource_graph"
    /\ \E a, b, c \in Phils :
          /\ states[a] = "EATING"
          /\ states[b] = "HUNGRY" /\ holder[LeftOf(b)] = b
          /\ states[c] = "HUNGRY" /\ holder[LeftOf(c)] # c
    /\ Len(ret.val) = 5

\* C13: constructing a simulation with num_agents <= 0 or
\* num_resources <= 0 fails with an error; no object with a non-positive
\* count is produced.
C13_NonPositiveCountsRejected ==
    (ret.op = "create" /\ (ret.arg[1] <= 0 \/ ret.arg[2] <= 0)) =>
        ret.val \in {"exception"}

\* The queue after one more event, under the capacity in force.
WithNewest(q, ev) ==
    IF Len(q) < queue_limit THEN Append(q, ev) ELSE Append(Tail(q), ev)

\* C14: set_strategy(code) selects BANKER for code 1 and NONE for every
\* other code, appends one SYSTEM event and changes nothing else; every
\* admission decision is taken with the strategy in force.
C14_SetStrategySelects ==
    /\ [][\A code \in StrategyCodes :
            SetStrategy(code) =>
                /\ current_strategy' = (IF code = 1 THEN "BANKER" ELSE "NONE")
                /\ event_queue' =
                      WithNewest(event_queue,
                                 <<NOBODY, "SYSTEM",
                                   "Strategy changed to " \o ToString(code)>>)
                /\ UNCHANGED <<num_philosophers, num_forks, running,
                               states, wait_counts, eat_counts,
                               max_wait_counts, holder, mtx, threads,
                               pc>>]_vars
    /\ [](\A a \in Phils : \A r \in {LeftOf(a), RightOf(a)} :
            request_permission(a, r) <=> GatesPass(a, r))

\* C14 witness: set_strategy(2) has been called on a running simulation
\* that was under BANKER, and a philosopher is about to ask for permission.
C14_SetToNoneByOtherCode ==
    /\ running
    /\ banker_run = FALSE
    /\ current_strategy = "NONE"
    /\ event_queue = << <<NOBODY, "SYSTEM", "Strategy changed to 2">> >>
    /\ \E a \in Phils : pc[a] = "req_right"

\* C15: in every reachable state, for every fork r and philosopher a,
\* holder[r] = a exactly when a owns the lock of r.
C15_HolderIffLockOwner ==
    \A r \in Forks : \A a \in Phils : holder[r] = a <=> mtx[r] = a

\* C16: every release of a fork, the clearing of holder and the unlock, is
\* made by the thread that owns the lock of that fork at that moment; a
\* lock or a holder field is given up only by a step of its owner, and the
\* unlock leaves the fork free, so nothing is released twice or by a
\* stranger.
C16_ReleaseByOwnerOnce ==
    [][/\ \A id \in Phils : \A site \in ReleaseSite(id) :
            /\ (pc[id] = site.clr /\ pc'[id] = site.unlock) =>
                  (mtx[site.fork] = id /\ holder[site.fork] = id)
            /\ (pc[id] = site.unlock /\ pc'[id] = site.to) =>
                  /\ mtx[site.fork] = id
                  /\ holder[site.fork] = NOBODY
                  /\ mtx'[site.fork] = NOBODY
       /\ \A f \in Forks :
            /\ (mtx[f] # NOBODY /\ mtx'[f] # mtx[f]) =>
                  (mtx'[f] = NOBODY /\ pc'[mtx[f]] # pc[mtx[f]])
            /\ (holder[f] # NOBODY /\ holder'[f] # holder[f]) =>
                  (holder'[f] = NOBODY /\ pc'[holder[f]] # pc[holder[f]])
      ]_vars

\* C16 witness: a philosopher that lost the race for its right fork, which
\* another one owns, is about to unlock its left fork.
C16_BackoffRelease ==
    \E id, other \in Phils :
        /\ other # id
        /\ pc[id] = "b_unlock_left"
        /\ mtx[LeftOf(id)] = id
        /\ mtx[RightOf(id)] = other

\* The completion simulation of the contract, for the request of fork r by
\* agent a: the forks an agent gives back when it finishes, its remaining
\* need, and the agents that finish, given those finished so far and the
\* forks available so far.
GivenBack(i, a, r) ==
    {f \in Forks : holder[f] = i} \cup (IF i = a THEN {r} ELSE {})

RemainingNeed(i, a, r) ==
    2 - Cardinality({f \in Forks : holder[f] = i}) - (IF i = a THEN 1 ELSE 0)

Obtainable(i, f, a, r, avail) ==
    holder[f] = i \/ f \in avail \/ (i = a /\ f = r)

RECURSIVE Completion(_, _, _, _)
Completion(finished, avail, a, r) ==
    LET more == {i \in Phils \ finished :
                    \/ RemainingNeed(i, a, r) <= 0
                    \/ /\ Obtainable(i, LeftOf(i), a, r, avail)
                       /\ Obtainable(i, RightOf(i), a, r, avail)}
    IN IF more = {} THEN finished
       ELSE Completion(finished \cup more,
                       avail \cup UNION {GivenBack(i, a, r) : i \in more},
                       a, r)

SafeByContract(a, r) ==
    /\ holder[r] = NOBODY
    /\ Completion({}, {f \in Forks : holder[f] = NOBODY} \ {r}, a, r) = Phils

\* C17: is_safe_state(a, r) returns the verdict of the completion
\* simulation in which every agent that finishes gives back the forks it
\* holds, the simulated grant included.
C17_SafeStateIsCompletion ==
    \A a \in Phils : \A r \in {LeftOf(a), RightOf(a)} :
        is_safe_state(a, r) <=> SafeByContract(a, r)

\* C18: a philosopher that holds its left fork and is denied, or fails to
\* lock, its right fork puts the left fork down before its next attempt:
\* at the head of the retry loop, at the next request and at the exit of
\* the thread it owns no lock and is the holder of no fork.
C18_NothingHeldAtRetry ==
    \A id \in Phils :
        pc[id] \in {"retry", "req_left", "inc_wait", "loop", "done", "none"} =>
            \A f \in Forks : mtx[f] # id /\ holder[f] # id

\* C18 witness: a philosopher is back at the head of the retry loop after
\* it failed to lock its right fork and put down the left one.
C18_BackAfterBackoff ==
    \E id \in Phils :
        /\ pc[id] = "retry"
        /\ wait_counts[id] > 0
        /\ event_queue =
              << <<id, "RELEASE", <<"Left Fork", LeftOf(id), "(Backoff)">> >> >>

\* C19: every philosopher starts THINKING, and over any sequence of
\* start(), stop() and thread steps every change of a philosopher's state
\* is THINKING -> HUNGRY, HUNGRY -> EATING or EATING -> THINKING.
C19_StatesFollowTheCycle ==
    /\ \A i \in Phils : states[i] = "THINKING"
    /\ [][\A i \in Phils :
            states'[i] # states[i] =>
                <<states[i], states'[i]>> \in
                    {<<"THINKING", "HUNGRY">>, <<"HUNGRY", "EATING">>,
                     <<"EATING", "THINKING">>}]_vars

\* C20: no task holds state_mutex or event_mutex while it holds another
\* lock: a thread step that takes one of them is made with no fork lock
\* owned and takes no second one, and set_strategy and detect_deadlock
\* never hold two at once.
C20_NoSecondLockHeld ==
    [][/\ \A id \in Phils :
            (pc'[id] # pc[id] /\ step_mutexes(pc[id]) # <<>>) =>
                (fork_locks(id) = {} /\ Len(step_mutexes(pc[id])) = 1)
       /\ (\E code \in StrategyCodes : SetStrategy(code)) =>
              Len(set_strategy_mutexes) <= 1
       /\ DetectDeadlock => Len(detect_deadlock_mutexes) <= 1
      ]_vars

\* C21: state_mutex is never held by a thread while it tries to lock a
\* fork or sleeps: a try_lock step is made by a thread that does not own
\* state_mutex, a thread that goes to sleep does not own it, every critical
\* section is over with the step that runs it, and a thread owns the mutex
\* only at a position that opens a critical section.
C21_StateLockNotHeldAcross ==
    /\ [][\A id \in Phils :
            /\ (pc[id] \in {"try_left", "try_right"} /\ pc'[id] # pc[id]) =>
                  state_mutex # id
            /\ (<<pc[id], pc'[id]>> \in SleepSite) => state_mutex' # id
            /\ (state_mutex = id /\ pc'[id] # pc[id]) => state_mutex' # id
         ]_vars
    /\ [](\A id \in Phils :
            state_mutex = id => step_mutexes(pc[id]) = <<"state_mutex">>)

\* C21 witness: a thread owns state_mutex while another one, with its left
\* fork locked, is about to try the lock of its right fork.
C21_LockedWhileOtherTries ==
    \E a, b \in Phils :
        /\ a # b
        /\ state_mutex = a
        /\ pc[a] = "inc_wait"
        /\ pc[b] = "try_right"
        /\ mtx[LeftOf(b)] = b

\* C22: every write to states, wait_counts, eat_counts, max_wait_counts or
\* the strategy is made under state_mutex, and entry i is written only by
\* the thread of philosopher i: a step that changes entry i is a step of
\* thread i that runs a critical section, and a step that changes the
\* strategy is set_strategy holding state_mutex.
C22_WritesUnderStateLock ==
    [][/\ \A i \in Phils :
            (\/ states'[i] # states[i]
             \/ wait_counts'[i] # wait_counts[i]
             \/ eat_counts'[i] # eat_counts[i]
             \/ max_wait_counts'[i] # max_wait_counts[i]) =>
                /\ pc[i] \notin {"none", "done"}
                /\ pc'[i] # pc[i]
                /\ step_mutexes(pc[i]) = <<"state_mutex">>
       /\ current_strategy' # current_strategy =>
            /\ \E code \in StrategyCodes : SetStrategy(code)
            /\ set_strategy_mutexes[1] = "state_mutex"
      ]_vars

\* C23: cooperative shutdown terminates. Once stop() has cleared the flag,
\* with the threads scheduled fairly, every thread exits, wherever it is in
\* its cycle and whatever the others hold, and stop() returns with the
\* task set empty.
C23_ShutdownTerminates ==
    /\ (ctl = "stopping") ~> (\A i \in Phils : pc[i] \in {"done", "none"})
    /\ (ctl = "stopping") ~> (ctl = "idle" /\ threads = <<>>)

\* C23 witness: stop() has cleared the flag while one philosopher eats and
\* another one, hungry, is about to ask for its left fork.
C23_StopWhileEatingAndHungry ==
    \E a, b \in Phils :
        /\ ctl = "stopping"
        /\ pc[a] = "log_eat"
        /\ pc[b] = "req_left"
        /\ states[b] = "HUNGRY"

\* Every fork is held as a left fork by a HUNGRY philosopher whose right
\* fork is held by another one.
CircularHold ==
    \A f \in Forks : \E i \in Phils :
        /\ LeftOf(i) = f
        /\ holder[f] = i
        /\ states[i] = "HUNGRY"
        /\ holder[RightOf(i)] \notin {NOBODY, i}

\* C24: with strategy NONE a state in which detect_deadlock() returns true
\* is reachable: whenever every fork is held as a left fork by a distinct
\* HUNGRY philosopher, each waiting for the right fork the next one holds,
\* detect_deadlock() returns true.
C24_CircularHoldDetected == CircularHold => detect_deadlock.found

\* C24 witness: the strategy is NONE as constructed, every fork is held as
\* a left fork by a HUNGRY philosopher waiting for the next, and
\* detect_deadlock() has returned true and logged the cycle.
C24_DeadlockUnderNone ==
    /\ current_strategy = "NONE"
    /\ ~banker_run
    /\ running
    /\ CircularHold
    /\ detect_deadlock.found
    /\ Len(event_queue) = 1
    /\ event_queue[1][2] = "DEADLOCK"

\* Philosopher i exists and is in state name.
StateIs(i, name) == i \in Phils /\ states[i] = name

\* C25: with strategy NONE, no shutdown and every thread scheduled fairly,
\* every philosopher that becomes HUNGRY eventually reaches EATING.
C25_HungryEventuallyEats ==
    /\ StateIs(0, "HUNGRY") ~> StateIs(0, "EATING")
    /\ StateIs(1, "HUNGRY") ~> StateIs(1, "EATING")

\* C26: wait_counts[i] is set to 0 when philosopher i enters HUNGRY and
\* when it enters EATING; every iteration of the retry loop that ends
\* without a meal, whatever made it fail, adds exactly one (up to the value
\* the counter is followed to), and nothing else changes the count. The
\* thread leaves an iteration only through the increment or after its meal.
C26_WaitCountCountsFailures ==
    [][\A i \in Phils :
          /\ (states[i] # "HUNGRY" /\ states'[i] = "HUNGRY") =>
                wait_counts'[i] = 0
          /\ (states[i] # "EATING" /\ states'[i] = "EATING") =>
                wait_counts'[i] = 0
          /\ (pc'[i] = "retry" /\ pc[i] \notin {"retry", "log_hungry"}) =>
                /\ pc[i] = "inc_wait"
                /\ states[i] = "HUNGRY"
                /\ wait_counts'[i] =
                      (IF wait_counts[i] < wait_cap THEN wait_counts[i] + 1
                       ELSE wait_counts[i])
          /\ (pc'[i] = "loop" /\ pc[i] \notin {"loop", "none"}) =>
                pc[i] \in {"log_rel_left", "retry"}
          /\ wait_counts'[i] # wait_counts[i] =>
                \/ (states[i] # "HUNGRY" /\ states'[i] = "HUNGRY")
                \/ (states[i] # "EATING" /\ states'[i] = "EATING")
                \/ (pc[i] = "inc_wait" /\ pc'[i] = "retry")
      ]_vars

\* C26 witness: a HUNGRY philosopher is back at the head of the retry loop
\* with one failed iteration counted, its left fork locked by another one.
C26_OneFailureCounted ==
    \E a, b \in Phils :
        /\ a # b
        /\ pc[a] = "retry"
        /\ states[a] = "HUNGRY"
        /\ wait_counts[a] = 1
        /\ eat_counts[a] = 0
        /\ mtx[LeftOf(a)] = b

\* C27: max_wait_counts[i] never decreases, and when stop() returns it is
\* at least every value wait_counts[i] has taken: a count is lowered only
\* by a step after which the mark is at least the value lost, and when
\* stop() returns the mark is at least the count then standing, the count
\* of a hunger cut short by the shutdown included.
C27_MaxWaitIsHighWater ==
    [][\A i \in Phils :
          /\ max_wait_counts'[i] >= max_wait_counts[i]
          /\ wait_counts'[i] < wait_counts[i] =>
                max_wait_counts'[i] >= wait_counts[i]
          /\ (ctl = "stopping" /\ ctl' = "idle") =>
                max_wait_counts'[i] >= wait_counts'[i]
      ]_vars

\* C27 witness: stop() has returned on a philosopher that never ate and
\* was stopped HUNGRY with one failed attempt: the mark is that count.
C27_FoldedAtStop ==
    \E i \in Phils :
        /\ ctl = "idle"
        /\ ~running
        /\ threads = <<>>
        /\ states[i] = "HUNGRY"
        /\ eat_counts[i] = 0
        /\ wait_counts[i] = 1
        /\ max_wait_counts[i] = 1

\* C28: eat_counts[i] goes up by exactly one each time philosopher i
\* changes to EATING and at no other time; the change to EATING is from
\* HUNGRY and is made while i holds, lock and holder field, both its left
\* and its right fork. (The counter is followed up to its bound.)
C28_EatCountCountsMeals ==
    [][\A i \in Phils :
          /\ (states[i] # "EATING" /\ states'[i] = "EATING") =>
                /\ states[i] = "HUNGRY"
                /\ eat_counts'[i] =
                      (IF eat_counts[i] < MaxEat THEN eat_counts[i] + 1
                       ELSE eat_counts[i])
                /\ holder[LeftOf(i)] = i /\ mtx[LeftOf(i)] = i
                /\ holder[RightOf(i)] = i /\ mtx[RightOf(i)] = i
          /\ eat_counts'[i] # eat_counts[i] =>
                /\ states[i] = "HUNGRY" /\ states'[i] = "EATING"
                /\ eat_counts'[i] = eat_counts[i] + 1
      ]_vars

\* C28 witness: a philosopher has just changed to EATING for its first
\* meal, both forks in hand, next to a HUNGRY one.
C28_FirstMeal ==
    \E a, b \in Phils :
        /\ a # b
        /\ pc[a] = "log_eat"
        /\ states[a] = "EATING"
        /\ eat_counts[a] = 1
        /\ holder[LeftOf(a)] = a /\ holder[RightOf(a)] = a
        /\ states[b] = "HUNGRY"

\* C29: the verdict of is_safe_state(a, r) does not depend on the scan
\* order: for every snapshot of the holders and every request, scanning
\* the philosophers in any permutation of the ids gives the verdict that
\* the scan in id order gives.
C29_VerdictIsOrderIndependent ==
    ret.op = "is_safe_state" => ret.val[1] = ret.val[2]

\* C29 witness: a request judged safe, on a snapshot in which two
\* philosophers hold a fork, scanned from the highest id down.
C29_SafeScannedBackwards ==
    /\ ret.op = "is_safe_state"
    /\ ret.val = <<TRUE, TRUE>>
    /\ \A k \in 1 .. num_philosophers : ret.arg[1][k] = num_philosophers - k
    /\ \E a, b \in Phils : \E f, g \in Forks :
          a # b /\ holder[f] = a /\ holder[g] = b

\* C30: two philosophers that share a fork are never both reported
\* EATING by get_states(), whatever the interleaving of the releases of one
\* that has finished its meal, its later write of THINKING, and the
\* acquisitions of its neighbour.
C30_NeighboursNeverBothEating ==
    \A a, b \in Phils :
        (a # b /\ SharesFork(a, b)) =>
            ~(get_states[a] = 2 /\ get_states[b] = 2)

C32_RequestedMeansNotHeld ==
    \A k \in 1 .. Len(get_resource_graph) :
        get_resource_graph[k][3] = 0 =>
            holder[get_resource_graph[k][2]] # get_resource_graph[k][1]

\* C33: in every reachable state of a simulation with at least two forks,
\* a philosopher that is the holder of its right fork is the holder of its
\* left fork, and a HUNGRY philosopher that is the holder of a fork is the
\* holder of its left fork.
C33_RightHeldImpliesLeftHeld ==
    num_forks >= 2 =>
        \A i \in Phils :
            /\ holder[RightOf(i)] = i => holder[LeftOf(i)] = i
            /\ (states[i] = "HUNGRY" /\ (\E f \in Forks : holder[f] = i)) =>
                  holder[LeftOf(i)] = i

\* C33 witness: a philosopher that has eaten has put down its right fork
\* and still holds its left fork, which is the right fork of another one.
C33_LeftReleasedLast ==
    \E i, j \in Phils :
        /\ num_forks >= 2
        /\ i # j
        /\ pc[i] = "clr_left"
        /\ holder[LeftOf(i)] = i
        /\ holder[RightOf(i)] # i
        /\ RightOf(j) = LeftOf(i)

\* C34: whenever stop() has returned, and so whenever start() spawns the
\* threads of a new run, every fork has holder -1 and every fork lock is
\* free; a thread that has left its loop holds no fork.
C34_ForksFreeAfterStop ==
    /\ []((ctl = "idle" /\ ~running) =>
            \A f \in Forks : holder[f] = NOBODY /\ mtx[f] = NOBODY)
    /\ []((\A i \in Phils : pc[i] \in {"done", "none"}) =>
            \A f \in Forks : holder[f] = NOBODY /\ mtx[f] = NOBODY)
    /\ [][(~running /\ running') =>
            \A f \in Forks : holder'[f] = NOBODY /\ mtx'[f] = NOBODY]_vars

\* C34 witness: stop() has returned on a run in which one philosopher had
\* eaten and stayed EATING and another one was stopped hungry after a
\* failed attempt.
C34_ReturnedFromBusyRun ==
    \E i, j \in Phils :
        /\ ctl = "idle"
        /\ ~running
        /\ threads = <<>>
        /\ states[i] = "EATING"
        /\ states[j] = "HUNGRY"
        /\ wait_counts[j] > 0
        /\ \A f \in Forks : holder[f] = NOBODY /\ mtx[f] = NOBODY

\* Following blocked_by from task t comes, within fuel hops, to a task
\* that is not waiting for a mutex another task owns.
RECURSIVE wait_chain_ends(_, _)
wait_chain_ends(t, fuel) ==
    IF blocked_by(t) = NOBODY THEN TRUE
    ELSE IF fuel = 0 THEN FALSE
    ELSE wait_chain_ends(blocked_by(t), fuel - 1)

\* C35: among the philosopher threads and the thread calling set_strategy,
\* detect_deadlock, get_states, get_resource_graph and poll_events, a fork
\* lock is only tried (a thread at a try_lock always has a step, and a fork
\* lock is taken by a thread that owns neither state_mutex nor
\* event_mutex), state_mutex is never taken by a task that owns
\* event_mutex, the task that owns event_mutex waits for no mutex, and
\* the wait-for relation of the mutexes has no cycle: from every task the
\* chain of owners ends in a task that can go on.
C35_LockOrderHasNoCycle ==
    /\ [](\A t \in Tasks : wait_chain_ends(t, Cardinality(Tasks)))
    /\ [](\A t \in Tasks : event_mutex = t => blocked_by(t) = NOBODY)
    /\ [](\A id \in Phils :
            pc[id] \in {"try_left", "try_right"} =>
                ENABLED (TryLeft(id) \/ TryRight(id)))
    /\ [][\A t \in Tasks :
            /\ (state_mutex' = t /\ state_mutex # t) => event_mutex # t
            /\ \A f \in Forks :
                  (mtx'[f] = t /\ mtx[f] # t) =>
                      (t # caller /\ state_mutex # t /\ event_mutex # t)
         ]_vars

\* C35 witness: a thread waits for state_mutex, which the calling thread
\* owns inside set_strategy while it waits for event_mutex, which another
\* thread owns inside log_event with the lock of its left fork taken.
C35_ChainOfTwoWaits ==
    \E a, b \in Phils :
        /\ a # b
        /\ task_wants(a) = "state_mutex"
        /\ state_mutex = caller
        /\ ret.op = "set_strategy"
        /\ caller_wants = "event_mutex"
        /\ event_mutex = b
        /\ mtx[LeftOf(b)] = b
        /\ blocked_by(a) = caller
        /\ blocked_by(caller) = b

\* The ACQUIRE and RELEASE events of the queue that name fork f, in order.
fork_events(f) ==
    SelectSeq(event_queue,
              LAMBDA e : e[2] \in {"ACQUIRE", "RELEASE"} /\ e[3][2] = f)

\* C36: in the event queue, for every fork, an ACQUIRE event naming the
\* fork is not followed by another ACQUIRE event naming it without a
\* RELEASE event naming it in between.
C36_AcquireReleaseAlternate ==
    \A f \in Forks :
        \A k \in 1 .. (Len(fork_events(f)) - 1) :
            fork_events(f)[k][2] = "ACQUIRE" =>
                fork_events(f)[k + 1][2] = "RELEASE"

\* C37: every stop() that returns, whether the simulation is running, was
\* never started or is already stopped, has appended to the log one STATS
\* event per philosopher in id order and then the SYSTEM event
\* "Simulation stopped", after every event that was in the log, and at that
\* moment every thread of the run has exited, so that none of them logs
\* an event later.
C37_StopLogsStatsThenStopped ==
    [][(ctl = "stopping" /\ ctl' = "idle") =>
          /\ Len(event_queue') = Len(event_queue) + num_philosophers + 1
          /\ SubSeq(event_queue', 1, Len(event_queue)) = event_queue
          /\ \A k \in 1 .. num_philosophers :
                /\ event_queue'[Len(event_queue) + k][1] = k - 1
                /\ event_queue'[Len(event_queue) + k][2] = "STATS"
          /\ event_queue'[Len(event_queue')] =
                Event(NOBODY, "SYSTEM", "Simulation stopped")
          /\ \A i \in Phils : pc[i] \in {"done", "none"} /\ pc'[i] = "none"
      ]_vars

\* C37 witness: stop() has returned twice in a row after a run in which a
\* thread logged an event: the log ends with two blocks of statistics, each
\* closed by "Simulation stopped", and the thread's event is before them.
C37_StoppedTwiceAfterRun ==
    /\ ctl = "idle"
    /\ ~running
    /\ num_philosophers = 2
    /\ Len(event_queue) = 9
    /\ event_queue[1] = Event(NOBODY, "SYSTEM", "Simulation started")
    /\ event_queue[2][2] = "STATE"
    /\ event_queue[3][2] = "STATE"
    /\ event_queue[4][2] = "STATS"
    /\ event_queue[6] = Event(NOBODY, "SYSTEM", "Simulation stopped")
    /\ event_queue[7][2] = "STATS"
    /\ event_queue[9] = Event(NOBODY, "SYSTEM", "Simulation stopped")

====
